---- MODULE Spec2Model ----
(***************************************************************************)
(* Model of VideoStreamService (src/src/services/video_stream_service.py)  *)
(* and of the ApplicationController methods that drive it (src/src/app.py).*)
(*                                                                         *)
(* Two threads are modelled: the worker thread executing run(), and one    *)
(* client thread (the Tk main thread of the application, or the test's     *)
(* main thread) calling the public methods.  Every `with lock:` block is   *)
(* an acquire step (fused with the first statement of its body) followed   *)
(* by the remaining statements and a release step, so the holder of each   *)
(* lock is visible in the state.                                           *)
(*                                                                         *)
(* A frame is a record [id, px]: px is the pixel buffer, id names the      *)
(* Python object holding it ("src" the array cap.read() returned, "cur"    *)
(* the object stored in _current_frame, "max" the one stored in            *)
(* _brightest_frame, "ret" a copy handed to a caller, "old" an object the  *)
(* service no longer references).  Two references alias exactly when they  *)
(* carry the same id.                                                      *)
(*                                                                         *)
(* Eight specifications share these definitions: Spec (the service, its    *)
(* worker and one client thread), SpecFair (the same worker with a client  *)
(* that starts, stops and reads, under fair scheduling), SpecReaders (the  *)
(* worker and three threads calling the read accessors), SpecApp (the      *)
(* worker and the thread of toggle_starline_capture), SpecObserver (the    *)
(* worker with an observer that calls accessors, under fair scheduling),   *)
(* and for src/src/domain/isocenter_detection.py SpecDr (one call of       *)
(* detect_dr_center), SpecLaser (one call of detect_laser_isocenter) and   *)
(* SpecRoi (both calls as far as their regions of interest).               *)
(***************************************************************************)
EXTENDS Integers, Sequences, FiniteSets, TLC

\* ------------------------------------------------------------------ bounds

\* Number of cap.read() calls that return or raise during one worker's
\* life; the next read blocks (cap.read() is a blocking network read).
MaxReads == 3

\* Pixel positions of a frame and the values a pixel takes.
PixelIndex == 1..2
PixelValue == 0..1

\* ------------------------------------------------------------------ frames

NoneFrame == [id |-> "None", px |-> <<>>]

PixelBuffers == [PixelIndex -> PixelValue]

\* The arrays cap.read() can deliver.
SourceFrames == {[id |-> "src", px |-> p] : p \in PixelBuffers}

RECURSIVE SumPx(_)
\* np.sum(frame): the sum of all pixel values.
SumPx(px) == IF px = <<>> THEN 0 ELSE px[1] + SumPx(Tail(px))

\* ndarray.copy(): a new object `newId` with the same pixels.
FrameCopy(f, newId) == [id |-> newId, px |-> f.px]

VARIABLES
    \* --- VideoStreamService fields
    _stop_event,          \* the threading.Event is set
    _state_lock,          \* its holder: "free", "worker" or "client"
    _frame_lock,          \* its holder
    _brightness_lock,     \* its holder
    _camera_is_online,    \* the last read delivered a frame
    _current_frame,       \* copy of the latest frame, or NoneFrame
    _current_brightness,  \* pixel sum of the last analysed frame
    _calculation_enabled, \* measurement mode
    _max_brightness,      \* largest pixel sum recorded
    _brightest_frame,     \* copy of the frame that set it, or NoneFrame
    \* --- the worker thread (run)
    wpc,                  \* position of the worker: "new" before start()
    cap,                  \* local cap: "None" or "cap"
    frame,                \* local frame of the current iteration
    enabled_seen,         \* value _is_calculation_enabled() is returning
    \* --- the capture object (cv2.VideoCapture)
    opens,                \* VideoCapture(...) constructions by this service
    reads,                \* cap.read() calls that returned or raised
    releases,             \* cap.release() calls
    \* --- the client thread
    cpc,                  \* position of the client
    held,                 \* the frame object the client got from an accessor
    ret,                  \* the last scalar a call returned to the client
    \* --- history (not program state)
    exitCause,            \* why the worker left its loop
    analysed,             \* frames whose brightness update ran since reset
    lastStop,             \* outcome of the last completed stop()
    startRaised,          \* the last start() raised RuntimeError
    lastRead,             \* how the latest cap.read() ended
    cbRaised,             \* the callback raised for the frame in progress,
                          \* whose brightness is not yet recorded or skipped
    \* --- reader threads calling the read accessors
    rpc,                  \* position of each reader
    rret,                 \* what the last accessor call returned to it
    \* --- one call of detect_dr_center (domain/isocenter_detection.py)
    dpc,                  \* position inside the call
    args,                 \* image_array, roi_size, min_area, max_area
    crop_roi,             \* the region of interest, or NoRoi
    contours,             \* what cv2.findContours returned
    filtered_contours,    \* the contours that passed the area filter
    result,               \* the exception raised or the point returned
    \* --- one call of detect_laser_isocenter
    lpc,                  \* position inside the call
    largs,                \* image_array, roi_size
    lroi,                 \* the region of interest, or NoRoi
    fit,                  \* slopes and intercepts of the two fitted lines
    lresult,              \* the exception raised or the point returned
    \* --- history of the thread calling toggle_starline_capture
    mark                  \* <<n>>: n frames were analysed when
                          \* disable_calculation() last returned; or NoMark

svc == <<_stop_event, _state_lock, _frame_lock, _brightness_lock,
         _camera_is_online, _current_frame, _current_brightness,
         _calculation_enabled, _max_brightness, _brightest_frame>>
wrk == <<wpc, cap, frame, enabled_seen>>
dev == <<opens, reads, releases>>
cli == <<cpc, held, ret>>
hist == <<exitCause, analysed, lastStop, startRaised>>
obs == <<lastRead, cbRaised>>
rdr == <<rpc, rret>>
det == <<dpc, args, crop_roi, contours, filtered_contours, result>>
las == <<lpc, largs, lroi, fit, lresult>>
\* The state outside the service and its client thread.
ext == <<rdr, det, las, mark>>
vars == <<svc, wrk, dev, cli, hist, obs, ext>>

\* disable_calculation() has not returned since the service was made or
\* since enable_calculation() was last called.
NoMark == <<>>

\* threading.Thread.is_alive(): started and run() has not finished.
is_alive == wpc \notin {"new", "done"}

\* ------------------------------------------------------------------ Init

\* VideoStreamService.__init__: the state after construction.
ServiceNew ==
    /\ _stop_event = FALSE
    /\ _state_lock = "free" /\ _frame_lock = "free" /\ _brightness_lock = "free"
    /\ _camera_is_online = FALSE
    /\ _current_frame = NoneFrame
    /\ _current_brightness = 0
    /\ _calculation_enabled = FALSE
    /\ _max_brightness = 0
    /\ _brightest_frame = NoneFrame
    /\ wpc = "new" /\ cap = "None" /\ frame = NoneFrame /\ enabled_seen = FALSE
    /\ opens = 0 /\ reads = 0 /\ releases = 0
    /\ cpc = "idle" /\ held = NoneFrame /\ ret = 0
    /\ exitCause = "none" /\ analysed = <<>> /\ lastStop = "never"
    /\ startRaised = FALSE
    /\ lastRead = "none" /\ cbRaised = FALSE
    /\ mark = NoMark

\* ------------------------------------------------------------ worker: run()

\* W_Open without the `return` of line 77: a source that is not opened
\* falls through into the capture loop.
W_OpenNoReturn ==
    /\ wpc = "open"
    /\ \E outcome \in {"raise", "closed", "opened"} :
         /\ opens' = opens + 1
         /\ cap' = IF outcome = "raise" THEN "None" ELSE "cap"
         /\ wpc' = IF outcome = "raise" THEN "finally" ELSE "loop"
         /\ exitCause' = CASE outcome = "raise"  -> "open_raised"
                           [] outcome = "closed" -> "open_failed"
                           [] OTHER              -> exitCause
    /\ UNCHANGED <<svc, frame, enabled_seen, reads, releases, cli, analysed,
                   lastStop, startRaised, obs, ext>>

\* W_Open retrying: a source that is not opened is constructed again.
W_OpenRetry ==
    /\ wpc = "open"
    /\ \E outcome \in {"raise", "closed", "opened"} :
         /\ opens' = IF opens < 2 THEN opens + 1 ELSE opens
         /\ cap' = IF outcome = "raise" THEN "None" ELSE "cap"
         /\ wpc' = CASE outcome = "opened" -> "loop"
                     [] outcome = "closed" -> "open"
                     [] OTHER              -> "finally"
         /\ exitCause' = CASE outcome = "raise"  -> "open_raised"
                           [] outcome = "closed" -> "open_failed"
                           [] OTHER              -> exitCause
    /\ UNCHANGED <<svc, frame, enabled_seen, reads, releases, cli, analysed,
                   lastStop, startRaised, obs, ext>>

\* Line 74-77: cap = cv2.VideoCapture(source) raises (cap stays None), or the
\* object is created and isOpened() is False (return) or True (enter loop).
W_Open ==
    /\ wpc = "open"
    /\ \E outcome \in {"raise", "closed", "opened"} :
         /\ opens' = opens + 1
         /\ cap' = IF outcome = "raise" THEN "None" ELSE "cap"
         /\ wpc' = IF outcome = "opened" THEN "loop" ELSE "finally"
         /\ exitCause' = CASE outcome = "raise"  -> "open_raised"
                           [] outcome = "closed" -> "open_failed"
                           [] OTHER              -> exitCause
    /\ UNCHANGED <<svc, frame, enabled_seen, reads, releases, cli, analysed,
                   lastStop, startRaised, obs, ext>>

\* W_LoopTest as `while True`: the stop flag is not looked at.
W_LoopTestIgnoresStop ==
    /\ wpc = "loop"
    /\ wpc' = "read"
    /\ exitCause' = exitCause
    /\ frame' = NoneFrame
    /\ UNCHANGED <<svc, cap, enabled_seen, dev, cli, analysed, lastStop,
                   startRaised, obs, ext>>

\* Line 80: while not self._stop_event.is_set()
\* (the local frame of the previous iteration is dead here: line 81
\* assigns it before any use, so it is forgotten.)
W_LoopTest ==
    /\ wpc = "loop"
    /\ wpc' = IF _stop_event THEN "finally" ELSE "read"
    /\ exitCause' = IF _stop_event THEN "stop" ELSE exitCause
    /\ frame' = NoneFrame
    /\ UNCHANGED <<svc, cap, enabled_seen, dev, cli, analysed, lastStop,
                   startRaised, obs, ext>>

\* Line 81-83: ret, frame = cap.read() delivers a frame.
W_ReadFrame ==
    /\ wpc = "read" /\ reads < MaxReads
    /\ \E f \in SourceFrames : frame' = f
    /\ reads' = reads + 1
    /\ wpc' = "online"
    /\ lastRead' = "frame"
    /\ UNCHANGED <<svc, cap, enabled_seen, opens, releases, cli, hist,
                   cbRaised, ext>>

\* Line 81-83, 102: cap.read() returns (False, None).
W_ReadNone ==
    /\ wpc = "read" /\ reads < MaxReads
    /\ reads' = reads + 1
    /\ wpc' = "offline"
    /\ lastRead' = "no_frame"
    /\ UNCHANGED <<svc, cap, frame, enabled_seen, opens, releases, cli, hist,
                   cbRaised, ext>>

\* W_ReadRaise without try/finally: the exception ends run() at once.
W_ReadRaiseNoFinally ==
    /\ wpc = "read" /\ reads < MaxReads
    /\ reads' = reads + 1
    /\ wpc' = "done"
    /\ exitCause' = "read_raised"
    /\ lastRead' = "raised"
    /\ UNCHANGED <<svc, cap, frame, enabled_seen, opens, releases, cli,
                   analysed, lastStop, startRaised, cbRaised, ext>>

\* Line 81, 110-111: cap.read() raises; the except clause logs it.
W_ReadRaise ==
    /\ wpc = "read" /\ reads < MaxReads
    /\ reads' = reads + 1
    /\ wpc' = "finally"
    /\ exitCause' = "read_raised"
    /\ lastRead' = "raised"
    /\ UNCHANGED <<svc, cap, frame, enabled_seen, opens, releases, cli,
                   analysed, lastStop, startRaised, cbRaised, ext>>

\* Line 85-86: with self._state_lock: self._camera_is_online = True
W_OnlineSet ==
    /\ wpc = "online" /\ _state_lock = "free"
    /\ _state_lock' = "worker"
    /\ _camera_is_online' = TRUE
    /\ wpc' = "online_rel"
    /\ UNCHANGED <<_stop_event, _frame_lock, _brightness_lock, _current_frame,
                   _current_brightness, _calculation_enabled, _max_brightness,
                   _brightest_frame, cap, frame, enabled_seen, dev, cli, hist,
                   obs, ext>>

\* W_OnlineRel keeping the lock: line 89 nested inside the block of line 85.
W_OnlineRelKeepsLock ==
    /\ wpc = "online_rel"
    /\ _state_lock' = _state_lock
    /\ wpc' = "store"
    /\ UNCHANGED <<_stop_event, _frame_lock, _brightness_lock,
                   _camera_is_online, _current_frame, _current_brightness,
                   _calculation_enabled, _max_brightness, _brightest_frame,
                   cap, frame, enabled_seen, dev, cli, hist, obs, ext>>

\* Line 86: the end of the block `with self._state_lock:`.
W_OnlineRel ==
    /\ wpc = "online_rel"
    /\ _state_lock' = "free"
    /\ wpc' = "store"
    /\ UNCHANGED <<_stop_event, _frame_lock, _brightness_lock,
                   _camera_is_online, _current_frame, _current_brightness,
                   _calculation_enabled, _max_brightness, _brightest_frame,
                   cap, frame, enabled_seen, dev, cli, hist, obs, ext>>

\* W_StoreFrame writing into the stored buffer in place and getting no
\* further than its first pixel.
W_StoreFrameInPlace ==
    /\ wpc = "store" /\ _frame_lock = "free"
    /\ _frame_lock' = "worker"
    /\ _current_frame' =
         IF _current_frame = NoneFrame THEN FrameCopy(frame, "cur")
         ELSE [_current_frame EXCEPT !.px[1] = frame.px[1]]
    /\ held' = held
    /\ wpc' = "store_rel"
    /\ UNCHANGED <<_stop_event, _state_lock, _brightness_lock,
                   _camera_is_online, _current_brightness,
                   _calculation_enabled, _max_brightness, _brightest_frame,
                   cap, frame, enabled_seen, dev, cpc, ret, hist, obs, ext>>

\* Line 89-90: with self._frame_lock: self._current_frame = frame.copy()
\* The object stored before loses its reference from the service.
W_StoreFrame ==
    /\ wpc = "store" /\ _frame_lock = "free"
    /\ _frame_lock' = "worker"
    /\ _current_frame' = FrameCopy(frame, "cur")
    /\ held' = IF held.id = "cur" THEN [held EXCEPT !.id = "old"] ELSE held
    /\ wpc' = "store_rel"
    /\ UNCHANGED <<_stop_event, _state_lock, _brightness_lock,
                   _camera_is_online, _current_brightness,
                   _calculation_enabled, _max_brightness, _brightest_frame,
                   cap, frame, enabled_seen, dev, cpc, ret, hist, obs, ext>>

\* W_StoreRel going straight to the brightness analysis, the observer
\* being invoked after it.
W_StoreRelBrightnessFirst ==
    /\ wpc = "store_rel"
    /\ _frame_lock' = "free"
    /\ wpc' = "ba_cur"
    /\ UNCHANGED <<_stop_event, _state_lock, _brightness_lock,
                   _camera_is_online, _current_frame, _current_brightness,
                   _calculation_enabled, _max_brightness, _brightest_frame,
                   cap, frame, enabled_seen, dev, cli, hist, obs, ext>>

\* W_StoreRel keeping the lock: the callback of line 95 placed inside the
\* block `with self._frame_lock:` of line 89.
W_StoreRelKeepsLock ==
    /\ wpc = "store_rel"
    /\ _frame_lock' = _frame_lock
    /\ wpc' = "callback"
    /\ UNCHANGED <<_stop_event, _state_lock, _brightness_lock,
                   _camera_is_online, _current_frame, _current_brightness,
                   _calculation_enabled, _max_brightness, _brightest_frame,
                   cap, frame, enabled_seen, dev, cli, hist, obs, ext>>

\* Line 90-93: the end of the block `with self._frame_lock:`.
W_StoreRel ==
    /\ wpc = "store_rel"
    /\ _frame_lock' = "free"
    /\ wpc' = "callback"
    /\ UNCHANGED <<_stop_event, _state_lock, _brightness_lock,
                   _camera_is_online, _current_frame, _current_brightness,
                   _calculation_enabled, _max_brightness, _brightest_frame,
                   cap, frame, enabled_seen, dev, cli, hist, obs, ext>>

\* Line 93-95: if self.frame_callback: self.frame_callback(frame) returns
\* (or there is no callback), or it raises and line 96 catches it.
W_Callback ==
    /\ wpc = "callback"
    /\ \E outcome \in {"returns", "raises"} :
         wpc' = IF outcome = "raises" THEN "cb_except" ELSE "enabled"
    /\ UNCHANGED <<svc, cap, frame, enabled_seen, dev, cli, hist, obs, ext>>

\* W_CallbackExcept raising again: the exception of the callback reaches
\* the except clause of line 110 and ends the loop.
W_CallbackReraise ==
    /\ wpc = "cb_except"
    /\ wpc' = "finally"
    /\ cbRaised' = TRUE
    /\ exitCause' = "callback_raised"
    /\ UNCHANGED <<svc, cap, frame, enabled_seen, dev, cli, analysed,
                   lastStop, startRaised, lastRead, ext>>

\* Line 96-97: except Exception as e: logging.error("Callback error ...")
W_CallbackExcept ==
    /\ wpc = "cb_except"
    /\ wpc' = "enabled"
    /\ cbRaised' = TRUE
    /\ UNCHANGED <<svc, cap, frame, enabled_seen, dev, cli, hist, lastRead,
                   ext>>

\* Line 100, 128-129: with self._state_lock: return self._calculation_enabled
W_EnabledGet ==
    /\ wpc = "enabled" /\ _state_lock = "free"
    /\ _state_lock' = "worker"
    /\ enabled_seen' = _calculation_enabled
    /\ wpc' = "enabled_rel"
    /\ UNCHANGED <<_stop_event, _frame_lock, _brightness_lock,
                   _camera_is_online, _current_frame, _current_brightness,
                   _calculation_enabled, _max_brightness, _brightest_frame,
                   cap, frame, dev, cli, hist, obs, ext>>

\* W_EnabledRel without the `if` of line 100: every frame is analysed.
W_EnabledRelAlways ==
    /\ wpc = "enabled_rel"
    /\ _state_lock' = "free"
    /\ wpc' = "ba_cur"
    /\ enabled_seen' = FALSE
    /\ cbRaised' = cbRaised
    /\ UNCHANGED <<_stop_event, _frame_lock, _brightness_lock,
                   _camera_is_online, _current_frame, _current_brightness,
                   _calculation_enabled, _max_brightness, _brightest_frame,
                   cap, frame, dev, cli, hist, lastRead, ext>>

W_EnabledRel ==
    /\ wpc = "enabled_rel"
    /\ _state_lock' = "free"
    /\ wpc' = IF enabled_seen THEN "ba_cur" ELSE "loop"
    /\ enabled_seen' = FALSE
    /\ cbRaised' = (cbRaised /\ enabled_seen)
    /\ UNCHANGED <<_stop_event, _frame_lock, _brightness_lock,
                   _camera_is_online, _current_frame, _current_brightness,
                   _calculation_enabled, _max_brightness, _brightest_frame,
                   cap, frame, dev, cli, hist, lastRead, ext>>

\* Line 142-146: _current_brightness = int(np.sum(frame));
\* with self._brightness_lock: self._current_brightness = _current_brightness
W_BrightnessCur ==
    /\ wpc = "ba_cur" /\ _brightness_lock = "free"
    /\ _brightness_lock' = "worker"
    /\ _current_brightness' = SumPx(frame.px)
    /\ analysed' = Append(analysed, frame.px)
    /\ wpc' = "ba_max"
    /\ UNCHANGED <<_stop_event, _state_lock, _frame_lock, _camera_is_online,
                   _current_frame, _calculation_enabled, _max_brightness,
                   _brightest_frame, cap, frame, enabled_seen, dev, cli,
                   exitCause, lastStop, startRaised, obs, ext>>

\* IsBrighter with >= in place of >.
IsBrighterOrEqual(b, m) == b >= m

\* Line 149: if _current_brightness > self._max_brightness
IsBrighter(b, m) == b > m

\* Line 149-151: the comparison and self._max_brightness = _current_brightness
W_BrightnessMax ==
    /\ wpc = "ba_max"
    /\ IF IsBrighter(SumPx(frame.px), _max_brightness)
       THEN /\ _max_brightness' = SumPx(frame.px)
            /\ wpc' = "ba_frame"
       ELSE /\ _max_brightness' = _max_brightness
            /\ wpc' = "ba_rel"
    /\ cbRaised' = FALSE
    /\ UNCHANGED <<_stop_event, _state_lock, _frame_lock, _brightness_lock,
                   _camera_is_online, _current_frame, _current_brightness,
                   _calculation_enabled, _brightest_frame, cap, frame,
                   enabled_seen, dev, cli, hist, lastRead, ext>>

\* Line 152: self._brightest_frame = frame.copy()
W_BrightnessFrame ==
    /\ wpc = "ba_frame"
    /\ _brightest_frame' = FrameCopy(frame, "max")
    /\ held' = IF held.id = "max" THEN [held EXCEPT !.id = "old"] ELSE held
    /\ wpc' = "ba_rel"
    /\ UNCHANGED <<_stop_event, _state_lock, _frame_lock, _brightness_lock,
                   _camera_is_online, _current_frame, _current_brightness,
                   _calculation_enabled, _max_brightness, cap, frame,
                   enabled_seen, dev, cpc, ret, hist, obs, ext>>

W_BrightnessRel ==
    /\ wpc = "ba_rel"
    /\ _brightness_lock' = "free"
    /\ wpc' = "loop"
    /\ UNCHANGED <<_stop_event, _state_lock, _frame_lock, _camera_is_online,
                   _current_frame, _current_brightness, _calculation_enabled,
                   _max_brightness, _brightest_frame, cap, frame,
                   enabled_seen, dev, cli, hist, obs, ext>>

\* Line 104-105: with self._state_lock: self._camera_is_online = False
W_OfflineSet ==
    /\ wpc = "offline" /\ _state_lock = "free"
    /\ _state_lock' = "worker"
    /\ _camera_is_online' = FALSE
    /\ wpc' = "offline_rel"
    /\ UNCHANGED <<_stop_event, _frame_lock, _brightness_lock, _current_frame,
                   _current_brightness, _calculation_enabled, _max_brightness,
                   _brightest_frame, cap, frame, enabled_seen, dev, cli, hist,
                   obs, ext>>

\* W_OfflineRel reconnecting: after the backoff the source is opened again.
W_OfflineReopen ==
    /\ wpc = "offline_rel"
    /\ _state_lock' = "free"
    /\ wpc' = "open"
    /\ UNCHANGED <<_stop_event, _frame_lock, _brightness_lock,
                   _camera_is_online, _current_frame, _current_brightness,
                   _calculation_enabled, _max_brightness, _brightest_frame,
                   cap, frame, enabled_seen, dev, cli, hist, obs, ext>>

\* Line 105-108: the lock is released, then time.sleep(0.5) before retrying.
W_OfflineRel ==
    /\ wpc = "offline_rel"
    /\ _state_lock' = "free"
    /\ wpc' = "loop"
    /\ UNCHANGED <<_stop_event, _frame_lock, _brightness_lock,
                   _camera_is_online, _current_frame, _current_brightness,
                   _calculation_enabled, _max_brightness, _brightest_frame,
                   cap, frame, enabled_seen, dev, cli, hist, obs, ext>>

\* Line 113-120: finally: if cap is not None: cap.release() (an exception
\* raised by release() is logged); run() returns.
W_Finally ==
    /\ wpc = "finally"
    /\ releases' = IF cap # "None" THEN releases + 1 ELSE releases
    /\ wpc' = "done"
    /\ UNCHANGED <<svc, cap, frame, enabled_seen, opens, reads, cli, hist,
                   obs, ext>>

Worker ==
    \/ W_Open \/ W_LoopTest \/ W_ReadFrame \/ W_ReadNone \/ W_ReadRaise
    \/ W_OnlineSet \/ W_OnlineRel \/ W_StoreFrame \/ W_StoreRel \/ W_Callback
    \/ W_CallbackExcept
    \/ W_EnabledGet \/ W_EnabledRel
    \/ W_BrightnessCur \/ W_BrightnessMax \/ W_BrightnessFrame
    \/ W_BrightnessRel \/ W_OfflineSet \/ W_OfflineRel \/ W_Finally


\* HandOut without .copy(): the stored object itself is returned.
HandOutReference(stored) == stored

\* get_current_frame / get_brightest_frame, line 192-194 and 221-223:
\* None if nothing is stored, otherwise a copy of the stored object.
HandOut(stored) ==
    IF stored = NoneFrame THEN NoneFrame ELSE FrameCopy(stored, "ret")

\* frame[:] = v on an array: every pixel of the buffer becomes v.
Fill(f, v) == [f EXCEPT !.px = [i \in DOMAIN f.px |-> v]]

\* ------------------------------------------------- client: thread control

\* ThreadStarted if start() did not look at the _started event.
ThreadStartedIgnored == FALSE

\* threading.Thread.start() refuses a thread whose _started event is set
\* ("threads can only be started once"); VideoStreamService inherits it.
ThreadStarted == wpc # "new"

\* service.start(), called directly (the tests do).
C_Start ==
    /\ cpc = "idle"
    /\ IF ThreadStarted
       THEN /\ startRaised' = TRUE
            /\ UNCHANGED wpc
       ELSE /\ startRaised' = FALSE
            /\ wpc' = "open"
    /\ UNCHANGED <<svc, cap, frame, enabled_seen, dev, cli, exitCause,
                   analysed, lastStop, obs, ext>>

\* ApplicationController.connect_camera, line 48-54: nothing happens while
\* the worker is alive; otherwise a new VideoStreamService replaces the old
\* one (whose worker is not running) and is started.
C_ConnectCamera ==
    /\ cpc = "idle"
    /\ IF is_alive
       THEN UNCHANGED <<svc, wrk, dev, hist, obs, mark>>
       ELSE /\ _stop_event' = FALSE
            /\ _state_lock' = "free" /\ _frame_lock' = "free"
            /\ _brightness_lock' = "free"
            /\ _camera_is_online' = FALSE
            /\ _current_frame' = NoneFrame
            /\ _current_brightness' = 0
            /\ _calculation_enabled' = FALSE
            /\ _max_brightness' = 0
            /\ _brightest_frame' = NoneFrame
            /\ wpc' = "open" /\ cap' = "None" /\ frame' = NoneFrame
            /\ enabled_seen' = FALSE
            /\ opens' = 0 /\ reads' = 0 /\ releases' = 0
            /\ exitCause' = "none" /\ analysed' = <<>> /\ lastStop' = "never"
            /\ startRaised' = FALSE
            /\ lastRead' = "none" /\ cbRaised' = FALSE
            /\ mark' = NoMark
    /\ UNCHANGED <<cli, rdr, det, las>>

\* stop(), line 240-241: if not self._stop_event.is_set(): set it.
C_StopSet ==
    /\ cpc = "idle"
    /\ _stop_event' = TRUE
    /\ cpc' = "stop_join"
    /\ UNCHANGED <<_state_lock, _frame_lock, _brightness_lock,
                   _camera_is_online, _current_frame, _current_brightness,
                   _calculation_enabled, _max_brightness, _brightest_frame,
                   wrk, dev, held, ret, hist, obs, ext>>

\* JoinReturns if stop() set the event and returned without joining.
JoinReturnsAtOnce == TRUE

\* join(timeout) has returned because the worker finished, or stop() did
\* not join at all because is_alive() was False (line 244).
JoinReturns == ~is_alive

\* stop(), line 244-248: the worker is not alive (it never ran, or it
\* finished before or during the join): stop() returns silently.
C_StopJoined ==
    /\ cpc = "stop_join"
    /\ JoinReturns
    /\ lastStop' = IF ThreadStarted THEN "joined" ELSE "unstarted"
    /\ cpc' = "idle"
    /\ UNCHANGED <<svc, wrk, dev, held, ret, exitCause, analysed, startRaised,
                   obs, ext>>

\* C_StopTimeout giving up: a join that timed out clears the stop flag.
C_StopTimeoutClears ==
    /\ cpc = "stop_join"
    /\ is_alive
    /\ _stop_event' = FALSE
    /\ lastStop' = "timeout"
    /\ cpc' = "idle"
    /\ UNCHANGED <<_state_lock, _frame_lock, _brightness_lock,
                   _camera_is_online, _current_frame, _current_brightness,
                   _calculation_enabled, _max_brightness, _brightest_frame,
                   wrk, dev, held, ret, exitCause, analysed, startRaised, obs,
                   ext>>

\* stop(), line 245-248: join(timeout=thread_join_timeout) returns with the
\* worker still alive; the warning is logged and stop() returns.
C_StopTimeout ==
    /\ cpc = "stop_join"
    /\ is_alive
    /\ lastStop' = "timeout"
    /\ cpc' = "idle"
    /\ UNCHANGED <<svc, wrk, dev, held, ret, exitCause, analysed, startRaised,
                   obs, ext>>

\* --------------------------------------------- client: calculation mode

\* with self._state_lock: self._calculation_enabled = v
SetEnabled(v) ==
    /\ cpc = "idle" /\ _state_lock = "free"
    /\ _calculation_enabled' = v
    /\ _state_lock' = "client"
    /\ cpc' = "state_rel"
    /\ UNCHANGED <<_stop_event, _frame_lock, _brightness_lock,
                   _camera_is_online, _current_frame, _current_brightness,
                   _max_brightness, _brightest_frame, wrk, dev, held, ret,
                   hist, obs, ext>>

\* enable_calculation, line 157-160.
C_EnableCalculation == SetEnabled(TRUE)

\* disable_calculation, line 162-165.
C_DisableCalculation == SetEnabled(FALSE)

\* The end of a `with self._state_lock:` block of a plain call.
C_StateRel ==
    /\ cpc = "state_rel"
    /\ _state_lock' = "free"
    /\ cpc' = "idle"
    /\ UNCHANGED <<_stop_event, _frame_lock, _brightness_lock,
                   _camera_is_online, _current_frame, _current_brightness,
                   _calculation_enabled, _max_brightness, _brightest_frame,
                   wrk, dev, held, ret, hist, obs, ext>>

\* C_ResetMax if reset_calculation cleared _max_brightness only.
C_ResetMaxOnly ==
    /\ cpc = "idle" /\ _brightness_lock = "free"
    /\ _brightness_lock' = "client"
    /\ _max_brightness' = 0
    /\ analysed' = <<>>
    /\ cpc' = "reset_rel"
    /\ UNCHANGED <<_stop_event, _state_lock, _frame_lock, _camera_is_online,
                   _current_frame, _current_brightness, _calculation_enabled,
                   _brightest_frame, wrk, dev, held, ret, exitCause, lastStop,
                   startRaised, obs, ext>>

\* reset_calculation, line 181-182: the lock is taken, _max_brightness = 0.
C_ResetMax ==
    /\ cpc = "idle" /\ _brightness_lock = "free"
    /\ _brightness_lock' = "client"
    /\ _max_brightness' = 0
    /\ analysed' = <<>>
    /\ cpc' = "reset_frame"
    /\ UNCHANGED <<_stop_event, _state_lock, _frame_lock, _camera_is_online,
                   _current_frame, _current_brightness, _calculation_enabled,
                   _brightest_frame, wrk, dev, held, ret, exitCause, lastStop,
                   startRaised, obs, ext>>

\* reset_calculation, line 183: _brightest_frame = None.
C_ResetFrame ==
    /\ cpc = "reset_frame"
    /\ _brightest_frame' = NoneFrame
    /\ held' = IF held.id = "max" THEN [held EXCEPT !.id = "old"] ELSE held
    /\ cpc' = "reset_rel"
    /\ UNCHANGED <<_stop_event, _state_lock, _frame_lock, _brightness_lock,
                   _camera_is_online, _current_frame, _current_brightness,
                   _calculation_enabled, _max_brightness, wrk, dev, ret, hist,
                   obs, ext>>

\* reset_calculation returns.
C_ResetRel ==
    /\ cpc = "reset_rel"
    /\ _brightness_lock' = "free"
    /\ cpc' = "reset_done"
    /\ UNCHANGED <<_stop_event, _state_lock, _frame_lock, _camera_is_online,
                   _current_frame, _current_brightness, _calculation_enabled,
                   _max_brightness, _brightest_frame, wrk, dev, held, ret,
                   hist, obs, ext>>

\* After reset_calculation() the caller does something else.
C_ResetDone ==
    /\ cpc = "reset_done"
    /\ cpc' = "idle"
    /\ UNCHANGED <<svc, wrk, dev, held, ret, hist, obs, ext>>

\* get_max_brightness (line 211-212) called right after reset_calculation()
\* returned, as tests/services/test_video_stream_service.py:211-214 does.
C_ResetThenMax ==
    /\ cpc = "reset_done" /\ _brightness_lock = "free"
    /\ _brightness_lock' = "client"
    /\ ret' = _max_brightness
    /\ cpc' = "rmax_rel"
    /\ UNCHANGED <<_stop_event, _state_lock, _frame_lock, _camera_is_online,
                   _current_frame, _current_brightness, _calculation_enabled,
                   _max_brightness, _brightest_frame, wrk, dev, held, hist,
                   obs, ext>>

C_ResetThenMaxRel ==
    /\ cpc = "rmax_rel"
    /\ _brightness_lock' = "free"
    /\ cpc' = "rmax_done"
    /\ UNCHANGED <<_stop_event, _state_lock, _frame_lock, _camera_is_online,
                   _current_frame, _current_brightness, _calculation_enabled,
                   _max_brightness, _brightest_frame, wrk, dev, held, ret,
                   hist, obs, ext>>

\* get_brightest_frame (line 220-223) called next, as the test's line 215.
C_ResetThenFrame ==
    /\ cpc = "rmax_done" /\ _brightness_lock = "free"
    /\ _brightness_lock' = "client"
    /\ held' = HandOut(_brightest_frame)
    /\ ret' = 0
    /\ cpc' = "rframe_rel"
    /\ UNCHANGED <<_stop_event, _state_lock, _frame_lock, _camera_is_online,
                   _current_frame, _current_brightness, _calculation_enabled,
                   _max_brightness, _brightest_frame, wrk, dev, hist, obs,
                   ext>>

C_ResetThenFrameRel ==
    /\ cpc = "rframe_rel"
    /\ _brightness_lock' = "free"
    /\ cpc' = "rframe_done"
    /\ UNCHANGED <<_stop_event, _state_lock, _frame_lock, _camera_is_online,
                   _current_frame, _current_brightness, _calculation_enabled,
                   _max_brightness, _brightest_frame, wrk, dev, held, ret,
                   hist, obs, ext>>

\* The test's assertions have been evaluated; the script ends.
C_ResetThenEnd ==
    /\ cpc = "rframe_done"
    /\ cpc' = "idle"
    /\ UNCHANGED <<svc, wrk, dev, held, ret, hist, obs, ext>>


\* ------------------------------------------------ client: frame accessors

\* get_current_frame, line 191-194.
C_GetCurrentFrame ==
    /\ cpc = "idle" /\ _frame_lock = "free"
    /\ _frame_lock' = "client"
    /\ held' = HandOut(_current_frame)
    /\ cpc' = "frame_rel"
    /\ UNCHANGED <<_stop_event, _state_lock, _brightness_lock,
                   _camera_is_online, _current_frame, _current_brightness,
                   _calculation_enabled, _max_brightness, _brightest_frame,
                   wrk, dev, ret, hist, obs, ext>>

\* The end of a `with self._frame_lock:` block of a plain call.
C_FrameRel ==
    /\ cpc = "frame_rel"
    /\ _frame_lock' = "free"
    /\ cpc' = "idle"
    /\ UNCHANGED <<_stop_event, _state_lock, _brightness_lock,
                   _camera_is_online, _current_frame, _current_brightness,
                   _calculation_enabled, _max_brightness, _brightest_frame,
                   wrk, dev, held, ret, hist, obs, ext>>

\* get_brightest_frame, line 220-223.
C_GetBrightestFrame ==
    /\ cpc = "idle" /\ _brightness_lock = "free"
    /\ _brightness_lock' = "client"
    /\ held' = HandOut(_brightest_frame)
    /\ cpc' = "bright_rel"
    /\ UNCHANGED <<_stop_event, _state_lock, _frame_lock, _camera_is_online,
                   _current_frame, _current_brightness, _calculation_enabled,
                   _max_brightness, _brightest_frame, wrk, dev, ret, hist,
                   obs, ext>>

\* The end of a `with self._brightness_lock:` block of a plain call.
C_BrightRel ==
    /\ cpc = "bright_rel"
    /\ _brightness_lock' = "free"
    /\ cpc' = "idle"
    /\ UNCHANGED <<_stop_event, _state_lock, _frame_lock, _camera_is_online,
                   _current_frame, _current_brightness, _calculation_enabled,
                   _max_brightness, _brightest_frame, wrk, dev, held, ret,
                   hist, obs, ext>>

\* The caller writes into the array it was handed (frame[:] = v, as
\* tests/services/test_video_stream_service.py:293).  The write lands in
\* every reference to the same object.
C_Mutate ==
    /\ cpc = "idle" /\ held # NoneFrame
    /\ \E v \in PixelValue :
         /\ held' = Fill(held, v)
         /\ _current_frame' = IF _current_frame.id = held.id
                             THEN Fill(_current_frame, v) ELSE _current_frame
         /\ _brightest_frame' = IF _brightest_frame.id = held.id
                               THEN Fill(_brightest_frame, v)
                               ELSE _brightest_frame
    /\ cpc' = "mutated"
    /\ UNCHANGED <<_stop_event, _state_lock, _frame_lock, _brightness_lock,
                   _camera_is_online, _current_brightness,
                   _calculation_enabled, _max_brightness, wrk, dev, ret, hist,
                   obs, ext>>

\* The caller goes on after its write.
C_MutateEnd ==
    /\ cpc = "mutated"
    /\ cpc' = "idle"
    /\ UNCHANGED <<svc, wrk, dev, held, ret, hist, obs, ext>>

\* ------------------------------- client: ApplicationController.capture_image

\* app.py line 72, is_camera_online() (line 231-232): the flag is read under
\* the state lock.
C_CaptureOnline ==
    /\ cpc = "idle" /\ _state_lock = "free"
    /\ _state_lock' = "client"
    /\ ret' = IF _camera_is_online THEN 1 ELSE 0
    /\ cpc' = "cap_online_rel"
    /\ UNCHANGED <<_stop_event, _frame_lock, _brightness_lock,
                   _camera_is_online, _current_frame, _current_brightness,
                   _calculation_enabled, _max_brightness, _brightest_frame,
                   wrk, dev, held, hist, obs, ext>>

\* app.py line 72-76: offline returns None ("Camera not connected."),
\* online goes on to get_current_frame().
C_CaptureOnlineRel ==
    /\ cpc = "cap_online_rel"
    /\ _state_lock' = "free"
    /\ cpc' = IF ret = 1 THEN "cap_get" ELSE "idle"
    /\ ret' = 0
    /\ UNCHANGED <<_stop_event, _frame_lock, _brightness_lock,
                   _camera_is_online, _current_frame, _current_brightness,
                   _calculation_enabled, _max_brightness, _brightest_frame,
                   wrk, dev, held, hist, obs, ext>>

\* app.py line 76: frame = self.video_stream.get_current_frame()
C_CaptureGet ==
    /\ cpc = "cap_get" /\ _frame_lock = "free"
    /\ _frame_lock' = "client"
    /\ held' = HandOut(_current_frame)
    /\ cpc' = "cap_get_rel"
    /\ UNCHANGED <<_stop_event, _state_lock, _brightness_lock,
                   _camera_is_online, _current_frame, _current_brightness,
                   _calculation_enabled, _max_brightness, _brightest_frame,
                   wrk, dev, ret, hist, obs, ext>>

C_CaptureGetRel ==
    /\ cpc = "cap_get_rel"
    /\ _frame_lock' = "free"
    /\ cpc' = "cap_got"
    /\ UNCHANGED <<_stop_event, _state_lock, _brightness_lock,
                   _camera_is_online, _current_frame, _current_brightness,
                   _calculation_enabled, _max_brightness, _brightest_frame,
                   wrk, dev, held, ret, hist, obs, ext>>

\* app.py line 77-94: "Failed to get frame." if frame is None, else the
\* frame is written to the chosen file.
C_CaptureEnd ==
    /\ cpc = "cap_got"
    /\ cpc' = "idle"
    /\ UNCHANGED <<svc, wrk, dev, held, ret, hist, obs, ext>>

Client ==
    \/ C_Start \/ C_ConnectCamera \/ C_StopSet \/ C_StopJoined \/ C_StopTimeout
    \/ C_EnableCalculation \/ C_DisableCalculation \/ C_StateRel
    \/ C_ResetMax \/ C_ResetFrame \/ C_ResetRel \/ C_ResetDone
    \/ C_ResetThenMax \/ C_ResetThenMaxRel \/ C_ResetThenFrame
    \/ C_ResetThenFrameRel \/ C_ResetThenEnd
    \/ C_GetCurrentFrame \/ C_FrameRel \/ C_GetBrightestFrame \/ C_BrightRel
    \/ C_Mutate \/ C_MutateEnd
    \/ C_CaptureOnline \/ C_CaptureOnlineRel \/ C_CaptureGet
    \/ C_CaptureGetRel \/ C_CaptureEnd

\* ----------------- client: ApplicationController.toggle_starline_capture

\* self.video_stream is not None: connect_camera has made a service.
HasStream == wpc # "new"

\* app.py line 118 with self.video_stream None: "Camera not connected."
C_ToggleNoStream ==
    /\ cpc = "idle"
    /\ ~HasStream
    /\ ret' = 0
    /\ cpc' = "tg_refused"
    /\ UNCHANGED <<svc, wrk, dev, held, hist, obs, ext>>

\* app.py line 118, is_camera_online() (line 231-232).
C_ToggleOnline ==
    /\ cpc = "idle" /\ _state_lock = "free"
    /\ HasStream
    /\ _state_lock' = "client"
    /\ ret' = IF _camera_is_online THEN 1 ELSE 0
    /\ cpc' = "tg_online_rel"
    /\ UNCHANGED <<_stop_event, _frame_lock, _brightness_lock,
                   _camera_is_online, _current_frame, _current_brightness,
                   _calculation_enabled, _max_brightness, _brightest_frame,
                   wrk, dev, held, hist, obs, ext>>

\* C_ToggleOnlineRel without the guard of line 118: the toggle goes on
\* whatever is_camera_online() returned.
C_ToggleOnlineRelUnguarded ==
    /\ cpc = "tg_online_rel"
    /\ _state_lock' = "free"
    /\ cpc' = "tg_enabled"
    /\ ret' = 0
    /\ UNCHANGED <<_stop_event, _frame_lock, _brightness_lock,
                   _camera_is_online, _current_frame, _current_brightness,
                   _calculation_enabled, _max_brightness, _brightest_frame,
                   wrk, dev, held, hist, obs, ext>>

\* app.py line 118-122: offline logs "Camera not connected." and returns,
\* online goes on to is_calculation_enabled().
C_ToggleOnlineRel ==
    /\ cpc = "tg_online_rel"
    /\ _state_lock' = "free"
    /\ cpc' = IF ret = 1 THEN "tg_enabled" ELSE "tg_refused"
    /\ ret' = 0
    /\ UNCHANGED <<_stop_event, _frame_lock, _brightness_lock,
                   _camera_is_online, _current_frame, _current_brightness,
                   _calculation_enabled, _max_brightness, _brightest_frame,
                   wrk, dev, held, hist, obs, ext>>

\* app.py line 119-120: the call has returned.
C_ToggleRefused ==
    /\ cpc = "tg_refused"
    /\ cpc' = "idle"
    /\ UNCHANGED <<svc, wrk, dev, held, ret, hist, obs, ext>>

\* app.py line 122, is_calculation_enabled() (line 173-174).
C_ToggleEnabled ==
    /\ cpc = "tg_enabled" /\ _state_lock = "free"
    /\ _state_lock' = "client"
    /\ ret' = IF _calculation_enabled THEN 1 ELSE 0
    /\ cpc' = "tg_enabled_rel"
    /\ UNCHANGED <<_stop_event, _frame_lock, _brightness_lock,
                   _camera_is_online, _current_frame, _current_brightness,
                   _calculation_enabled, _max_brightness, _brightest_frame,
                   wrk, dev, held, hist, obs, ext>>

\* app.py line 122-128: the branch on what is_calculation_enabled() returned.
C_ToggleEnabledRel ==
    /\ cpc = "tg_enabled_rel"
    /\ _state_lock' = "free"
    /\ cpc' = IF ret = 1 THEN "tg_disable" ELSE "tg_enable"
    /\ ret' = 0
    /\ UNCHANGED <<_stop_event, _frame_lock, _brightness_lock,
                   _camera_is_online, _current_frame, _current_brightness,
                   _calculation_enabled, _max_brightness, _brightest_frame,
                   wrk, dev, held, hist, obs, ext>>

\* app.py line 123, enable_calculation() (line 159-160).
C_ToggleEnable ==
    /\ cpc = "tg_enable" /\ _state_lock = "free"
    /\ _state_lock' = "client"
    /\ _calculation_enabled' = TRUE
    /\ mark' = NoMark
    /\ cpc' = "tg_enable_rel"
    /\ UNCHANGED <<_stop_event, _frame_lock, _brightness_lock,
                   _camera_is_online, _current_frame, _current_brightness,
                   _max_brightness, _brightest_frame, wrk, dev, held, ret,
                   hist, obs, rdr, det, las>>

C_ToggleEnableRel ==
    /\ cpc = "tg_enable_rel"
    /\ _state_lock' = "free"
    /\ cpc' = "tg_reset"
    /\ UNCHANGED <<_stop_event, _frame_lock, _brightness_lock,
                   _camera_is_online, _current_frame, _current_brightness,
                   _calculation_enabled, _max_brightness, _brightest_frame,
                   wrk, dev, held, ret, hist, obs, ext>>

\* app.py line 124, reset_calculation() (line 181-182).
C_ToggleResetMax ==
    /\ cpc = "tg_reset" /\ _brightness_lock = "free"
    /\ _brightness_lock' = "client"
    /\ _max_brightness' = 0
    /\ analysed' = <<>>
    /\ cpc' = "tg_reset_frame"
    /\ UNCHANGED <<_stop_event, _state_lock, _frame_lock, _camera_is_online,
                   _current_frame, _current_brightness, _calculation_enabled,
                   _brightest_frame, wrk, dev, held, ret, exitCause, lastStop,
                   startRaised, obs, ext>>

\* reset_calculation, line 183.
C_ToggleResetFrame ==
    /\ cpc = "tg_reset_frame"
    /\ _brightest_frame' = NoneFrame
    /\ held' = IF held.id = "max" THEN [held EXCEPT !.id = "old"] ELSE held
    /\ cpc' = "tg_reset_rel"
    /\ UNCHANGED <<_stop_event, _state_lock, _frame_lock, _brightness_lock,
                   _camera_is_online, _current_frame, _current_brightness,
                   _calculation_enabled, _max_brightness, wrk, dev, ret, hist,
                   obs, ext>>

\* app.py line 125-126: "Starline capture started..."; the call returns.
C_ToggleResetRel ==
    /\ cpc = "tg_reset_rel"
    /\ _brightness_lock' = "free"
    /\ cpc' = "idle"
    /\ UNCHANGED <<_stop_event, _state_lock, _frame_lock, _camera_is_online,
                   _current_frame, _current_brightness, _calculation_enabled,
                   _max_brightness, _brightest_frame, wrk, dev, held, ret,
                   hist, obs, ext>>

\* app.py line 128, disable_calculation() (line 164-165).
C_ToggleDisable ==
    /\ cpc = "tg_disable" /\ _state_lock = "free"
    /\ _state_lock' = "client"
    /\ _calculation_enabled' = FALSE
    /\ cpc' = "tg_disable_rel"
    /\ UNCHANGED <<_stop_event, _frame_lock, _brightness_lock,
                   _camera_is_online, _current_frame, _current_brightness,
                   _max_brightness, _brightest_frame, wrk, dev, held, ret,
                   hist, obs, ext>>

\* disable_calculation() returns.
C_ToggleDisableRel ==
    /\ cpc = "tg_disable_rel"
    /\ _state_lock' = "free"
    /\ mark' = <<Len(analysed)>>
    /\ cpc' = "tg_get"
    /\ UNCHANGED <<_stop_event, _frame_lock, _brightness_lock,
                   _camera_is_online, _current_frame, _current_brightness,
                   _calculation_enabled, _max_brightness, _brightest_frame,
                   wrk, dev, held, ret, hist, obs, rdr, det,
                   las>>

\* app.py line 130, get_brightest_frame() (line 220-223).
C_ToggleGet ==
    /\ cpc = "tg_get" /\ _brightness_lock = "free"
    /\ _brightness_lock' = "client"
    /\ held' = HandOut(_brightest_frame)
    /\ cpc' = "tg_get_rel"
    /\ UNCHANGED <<_stop_event, _state_lock, _frame_lock, _camera_is_online,
                   _current_frame, _current_brightness, _calculation_enabled,
                   _max_brightness, _brightest_frame, wrk, dev, ret, hist,
                   obs, ext>>

\* app.py line 132-146: the frame is saved, or "No brightest frame captured."
C_ToggleGetRel ==
    /\ cpc = "tg_get_rel"
    /\ _brightness_lock' = "free"
    /\ cpc' = "idle"
    /\ UNCHANGED <<_stop_event, _state_lock, _frame_lock, _camera_is_online,
                   _current_frame, _current_brightness, _calculation_enabled,
                   _max_brightness, _brightest_frame, wrk, dev, held, ret,
                   hist, obs, ext>>

C_Toggle ==
    \/ C_ToggleNoStream \/ C_ToggleOnline \/ C_ToggleOnlineRel
    \/ C_ToggleRefused \/ C_ToggleEnabled \/ C_ToggleEnabledRel
    \/ C_ToggleEnable \/ C_ToggleEnableRel \/ C_ToggleResetMax
    \/ C_ToggleResetFrame \/ C_ToggleResetRel \/ C_ToggleDisable
    \/ C_ToggleDisableRel \/ C_ToggleGet \/ C_ToggleGetRel

\* get_current_brightness, line 202-203.
C_GetCurrentBrightness ==
    /\ cpc = "idle" /\ _brightness_lock = "free"
    /\ _brightness_lock' = "client"
    /\ ret' = _current_brightness
    /\ cpc' = "bright_rel"
    /\ UNCHANGED <<_stop_event, _state_lock, _frame_lock, _camera_is_online,
                   _current_frame, _current_brightness, _calculation_enabled,
                   _max_brightness, _brightest_frame, wrk, dev, held, hist,
                   obs, ext>>

\* ----------------------------------------------------------- reader threads

\* The three threads running reader_thread of
\* test_concurrent_reads_are_thread_safe; each calls the four read
\* accessors, here in any order and any number of times.
Readers == {"r1", "r2", "r3"}

\* What an accessor returned: a frame (or None) or a number.
Returned(f, n) == [frame |-> f, value |-> n]

\* No reader has called anything yet.
ReadersIdle ==
    /\ rpc = [r \in Readers |-> "idle"]
    /\ rret = [r \in Readers |-> Returned(NoneFrame, 0)]

\* get_current_frame, line 191-194: under the frame lock, None or a copy.
R_GetCurrentFrame(r) ==
    /\ rpc[r] = "idle" /\ _frame_lock = "free"
    /\ _frame_lock' = r
    /\ rret' = [rret EXCEPT ![r] = Returned(HandOut(_current_frame), 0)]
    /\ rpc' = [rpc EXCEPT ![r] = "frame_rel"]
    /\ UNCHANGED <<_stop_event, _state_lock, _brightness_lock,
                   _camera_is_online, _current_frame, _current_brightness,
                   _calculation_enabled, _max_brightness, _brightest_frame,
                   wrk, dev, cli, hist, obs, det, las, mark>>

R_FrameRel(r) ==
    /\ rpc[r] = "frame_rel"
    /\ _frame_lock' = "free"
    /\ rpc' = [rpc EXCEPT ![r] = "idle"]
    /\ UNCHANGED <<_stop_event, _state_lock, _brightness_lock,
                   _camera_is_online, _current_frame, _current_brightness,
                   _calculation_enabled, _max_brightness, _brightest_frame,
                   wrk, dev, cli, hist, obs, rret, det, las,
                   mark>>

\* A `with self._brightness_lock: return ...` accessor returning `what`.
R_UnderBrightnessLock(r, what) ==
    /\ rpc[r] = "idle" /\ _brightness_lock = "free"
    /\ _brightness_lock' = r
    /\ rret' = [rret EXCEPT ![r] = what]
    /\ rpc' = [rpc EXCEPT ![r] = "brightness_rel"]
    /\ UNCHANGED <<_stop_event, _state_lock, _frame_lock, _camera_is_online,
                   _current_frame, _current_brightness, _calculation_enabled,
                   _max_brightness, _brightest_frame, wrk, dev, cli, hist,
                   obs, det, las, mark>>

\* get_current_brightness, line 202-203.
R_GetCurrentBrightness(r) ==
    R_UnderBrightnessLock(r, Returned(NoneFrame, _current_brightness))

\* get_max_brightness, line 211-212.
R_GetMaxBrightness(r) ==
    R_UnderBrightnessLock(r, Returned(NoneFrame, _max_brightness))

\* get_brightest_frame, line 220-223: None or a copy.
R_GetBrightestFrame(r) ==
    R_UnderBrightnessLock(r, Returned(HandOut(_brightest_frame), 0))

R_BrightnessRel(r) ==
    /\ rpc[r] = "brightness_rel"
    /\ _brightness_lock' = "free"
    /\ rpc' = [rpc EXCEPT ![r] = "idle"]
    /\ UNCHANGED <<_stop_event, _state_lock, _frame_lock, _camera_is_online,
                   _current_frame, _current_brightness, _calculation_enabled,
                   _max_brightness, _brightest_frame, wrk, dev, cli, hist,
                   obs, rret, det, las,
                   mark>>

Reader ==
    \E r \in Readers :
        \/ R_GetCurrentFrame(r) \/ R_FrameRel(r)
        \/ R_GetCurrentBrightness(r) \/ R_GetMaxBrightness(r)
        \/ R_GetBrightestFrame(r) \/ R_BrightnessRel(r)

\* ------------------------------- the observer: accessor calls in callback

\* The locks, named by what they guard; an observer running inside line 95
\* (on the worker thread) may call is_camera_online (state lock),
\* get_current_frame (frame lock) or get_max_brightness (brightness lock).
LockNames == {"state", "frame", "brightness"}

Holder(l) ==
    CASE l = "state" -> _state_lock
      [] l = "frame" -> _frame_lock
      [] OTHER -> _brightness_lock

\* The worker inside the observer, blocked in `with lock:` of an accessor,
\* and inside that block.
ObsWaiting(l) ==
    CASE l = "state" -> "cb_wait_state"
      [] l = "frame" -> "cb_wait_frame"
      [] OTHER -> "cb_wait_brightness"
ObsInside(l) ==
    CASE l = "state" -> "cb_in_state"
      [] l = "frame" -> "cb_in_frame"
      [] OTHER -> "cb_in_brightness"

\* Line 95: the observer calls an accessor of the service.
O_Call(l) ==
    /\ wpc = "callback"
    /\ wpc' = ObsWaiting(l)
    /\ UNCHANGED <<svc, cap, frame, enabled_seen, dev, cli, hist, obs, ext>>

\* Line 191, 211, 231: `with lock:` of the accessor; threading.Lock is not
\* reentrant, so the worker gets it only when nobody holds it.
O_Acquire(l) ==
    /\ wpc = ObsWaiting(l) /\ Holder(l) = "free"
    /\ _state_lock' = IF l = "state" THEN "worker" ELSE _state_lock
    /\ _frame_lock' = IF l = "frame" THEN "worker" ELSE _frame_lock
    /\ _brightness_lock' =
         IF l = "brightness" THEN "worker" ELSE _brightness_lock
    /\ wpc' = ObsInside(l)
    /\ UNCHANGED <<_stop_event, _camera_is_online, _current_frame,
                   _current_brightness, _calculation_enabled, _max_brightness,
                   _brightest_frame, cap, frame, enabled_seen, dev, cli, hist,
                   obs, ext>>

\* The accessor returns to the observer.
O_Return(l) ==
    /\ wpc = ObsInside(l)
    /\ _state_lock' = IF l = "state" THEN "free" ELSE _state_lock
    /\ _frame_lock' = IF l = "frame" THEN "free" ELSE _frame_lock
    /\ _brightness_lock' =
         IF l = "brightness" THEN "free" ELSE _brightness_lock
    /\ wpc' = "callback"
    /\ UNCHANGED <<_stop_event, _camera_is_online, _current_frame,
                   _current_brightness, _calculation_enabled, _max_brightness,
                   _brightest_frame, cap, frame, enabled_seen, dev, cli, hist,
                   obs, ext>>

Observer == \E l \in LockNames : O_Call(l) \/ O_Acquire(l) \/ O_Return(l)

\* ------------------------------------------- detect_dr_center (one call)

\* Largest height and width of an image given to the detector.
MaxDim == 4

\* image_array: "ok" is a 2-dimensional, non-empty ndarray of h rows and w
\* columns, all zero when blank; the other kinds are what lines 212-219
\* reject.
Images ==
    {[kind |-> "ok", h |-> h, w |-> w, blank |-> b] :
        h \in 1..MaxDim, w \in 1..MaxDim, b \in BOOLEAN}
    \cup {[kind |-> k, h |-> 0, w |-> 0, blank |-> FALSE] :
            k \in {"not_array", "not_2d", "empty"}}

\* Values of roi_size, and of min_area and max_area.
RoiSizes == {1, 2}
AreaLimits == {-1, 0, 4, 10}

DrCalls ==
    [image_array : Images, roi_size : RoiSizes,
     min_area : AreaLimits, max_area : AreaLimits]

NoArgs ==
    [image_array |-> [kind |-> "none", h |-> 0, w |-> 0, blank |-> FALSE],
     roi_size |-> 0, min_area |-> 0, max_area |-> 0]
NoRoi == [start_x |-> 0, start_y |-> 0, end_x |-> 0, end_y |-> 0]
NoResult == [kind |-> "none", x |-> 0, y |-> 0]
Raised(exc) == [kind |-> exc, x |-> 0, y |-> 0]
Point(x, y) == [kind |-> "point", x |-> x, y |-> y]

\* No call of detect_dr_center is under way.
DetectorIdle ==
    /\ dpc = "idle"
    /\ args = NoArgs /\ crop_roi = NoRoi /\ contours = <<>>
    /\ filtered_contours = <<>> /\ result = NoResult

PyMax(a, b) == IF a >= b THEN a ELSE b
PyMin(a, b) == IF a <= b THEN a ELSE b

\* Width and height of a region of interest.
RoiW(roi) == roi.end_x - roi.start_x
RoiH(roi) == roi.end_y - roi.start_y

\* A contour as the function uses it: cv2.contourArea(cnt), which is also
\* cv2.moments(cnt)["m00"], and the quotients m10 / m00 and m01 / m00 in
\* half pixels (0 when m00 is 0), in the coordinates of the region of
\* interest.
Contour(a, x2, y2) == [area |-> a, cx2 |-> x2, cy2 |-> y2]

\* Line 264-265: int(q) of a non-negative quotient q given in half pixels
\* drops the fraction.
PyInt(half_pixels) == half_pixels \div 2

\* Line 235-244 on a region cut from an all-zero image: the blur leaves it
\* zero, the Otsu threshold of a constant region is 0 and nothing exceeds
\* it, the inversion makes every pixel 255, and cv2.findContours returns
\* the one contour that runs along the border of the region.
BlankContours(roi) ==
    <<Contour((RoiW(roi) - 1) * (RoiH(roi) - 1),
              RoiW(roi) - 1, RoiH(roi) - 1)>>

\* Line 235-244 on a region of any other image: up to two contours, each
\* of area 0, 4 or 9 and with its centroid in the first corner, in the
\* middle or in the last corner of the region.
SomeContours(roi) ==
    LET shapes ==
            {Contour(0, 0, 0)} \cup
            {Contour(a, c[1], c[2]) :
                a \in {4, 9},
                c \in {<<0, 0>>, <<RoiW(roi) - 1, RoiH(roi) - 1>>,
                        <<2 * (RoiW(roi) - 1), 2 * (RoiH(roi) - 1)>>}}
    IN  {<<>>} \cup {<<c>> : c \in shapes}
               \cup {<<c, d>> : c \in shapes, d \in shapes}

\* detect_dr_center with <= in line 221: equal limits are rejected too.
AreaLimitsInvalidOrEqual(min_area, max_area) == max_area <= min_area

\* Line 221: if max_area < min_area
AreaLimitsInvalid(min_area, max_area) == max_area < min_area

\* Line 212-222: the input validation, in the order of the code.
D_Validate ==
    /\ dpc = "validate"
    /\ LET kind == args.image_array.kind
           exc == CASE kind = "not_array" -> "TypeError"
                    [] kind \in {"not_2d", "empty"} -> "ValueError"
                    [] AreaLimitsInvalid(args.min_area, args.max_area) ->
                           "ValueError"
                    [] OTHER -> "none"
       IN  IF exc = "none"
           THEN dpc' = "roi" /\ result' = result
           ELSE dpc' = "raised" /\ result' = Raised(exc)
    /\ UNCHANGED <<svc, wrk, dev, cli, hist, obs, rdr, las, mark, args, crop_roi,
                   contours, filtered_contours>>

\* D_ExtractRoi without the max(0, ...) and min(h, ...) of lines 226-229.
D_ExtractRoiUnclipped ==
    /\ dpc = "roi"
    /\ LET h == args.image_array.h
           w == args.image_array.w
       IN  crop_roi' =
             [start_y |-> (h \div 2) - args.roi_size,
              end_y |-> (h \div 2) + args.roi_size,
              start_x |-> (w \div 2) - args.roi_size,
              end_x |-> (w \div 2) + args.roi_size]
    /\ dpc' = "find"
    /\ UNCHANGED <<svc, wrk, dev, cli, hist, obs, rdr, las, mark, args,
                   contours, filtered_contours, result>>

\* Line 224-232: h, w = image_array.shape and the region of interest
\* around (int(w / 2), int(h / 2)).
D_ExtractRoi ==
    /\ dpc = "roi"
    /\ LET h == args.image_array.h
           w == args.image_array.w
       IN  crop_roi' =
             [start_y |-> PyMax(0, (h \div 2) - args.roi_size),
              end_y |-> PyMin(h, (h \div 2) + args.roi_size),
              start_x |-> PyMax(0, (w \div 2) - args.roi_size),
              end_x |-> PyMin(w, (w \div 2) + args.roi_size)]
    /\ dpc' = "find"
    /\ UNCHANGED <<svc, wrk, dev, cli, hist, obs, rdr, las, mark, args, contours,
                   filtered_contours, result>>

\* Line 235-244: blur, Otsu threshold, inversion, cv2.findContours.
D_FindContours ==
    /\ dpc = "find"
    /\ contours' \in IF args.image_array.blank
                      THEN {BlankContours(crop_roi)}
                      ELSE SomeContours(crop_roi)
    /\ dpc' = "filter"
    /\ UNCHANGED <<svc, wrk, dev, cli, hist, obs, rdr, las, mark, args, crop_roi,
                   filtered_contours, result>>

\* AreaInside with <= in line 249: an area equal to a limit passes.
AreaInsideOrOnLimit(a, min_area, max_area) == min_area <= a /\ a <= max_area

\* Line 249: min_area < cv2.contourArea(cnt) < max_area
AreaInside(a, min_area, max_area) == min_area < a /\ a < max_area

\* Line 247-250: filtered_contours
D_Filter ==
    /\ dpc = "filter"
    /\ LET keep(c) == AreaInside(c.area, args.min_area, args.max_area)
       IN  filtered_contours' = SelectSeq(contours, keep)
    /\ dpc' = "select"
    /\ UNCHANGED <<svc, wrk, dev, cli, hist, obs, rdr, las, mark, args, crop_roi,
                   contours, result>>

\* Line 258: max(filtered_contours, key=cv2.contourArea), the first of the
\* contours of largest area.
LargestContour(cs) ==
    LET best == CHOOSE i \in DOMAIN cs :
                    /\ \A j \in DOMAIN cs : cs[j].area <= cs[i].area
                    /\ \A j \in 1..(i - 1) : cs[j].area < cs[i].area
    IN  cs[best]

\* Line 263: M["m00"] > DR_MOMENT_THRESHOLD (1e-10); m00 is a whole number
\* here, so it exceeds the threshold exactly when it is positive.
MomentAboveThreshold(m00) == m00 > 0

\* Line 253-267: the default, then the centroid of the largest contour.
D_Select ==
    /\ dpc = "select"
    /\ LET h == args.image_array.h
           w == args.image_array.w
           dr_x == crop_roi.start_x + (w \div 2) - crop_roi.start_x
           dr_y == crop_roi.start_y + (h \div 2) - crop_roi.start_y
           largest_contour == LargestContour(filtered_contours)
       IN  result' =
             IF /\ filtered_contours # <<>>
                /\ MomentAboveThreshold(largest_contour.area)
             THEN Point(crop_roi.start_x + PyInt(largest_contour.cx2),
                        crop_roi.start_y + PyInt(largest_contour.cy2))
             ELSE Point(dr_x, dr_y)
    /\ dpc' = "done"
    /\ UNCHANGED <<svc, wrk, dev, cli, hist, obs, rdr, las, mark, args, crop_roi,
                   contours, filtered_contours>>

\* -------------------------------------- detect_laser_isocenter (one call)

\* Exact fractions n / d with d > 0, in lowest terms: the numbers the
\* function computes with (slopes, intercepts, coordinates).
RECURSIVE Gcd(_, _)
Gcd(a, b) == IF b = 0 THEN a ELSE Gcd(b, a % b)

Abs(k) == IF k < 0 THEN -k ELSE k

Rat(n, d) ==
    LET g == Gcd(Abs(n), Abs(d))
        s == IF d < 0 THEN -1 ELSE 1
    IN  [n |-> (s * n) \div g, d |-> (s * d) \div g]

Whole(k) == [n |-> k, d |-> 1]
RNeg(p) == [n |-> -p.n, d |-> p.d]
RAbs(p) == [n |-> Abs(p.n), d |-> p.d]
RAdd(p, q) == Rat(p.n * q.d + q.n * p.d, p.d * q.d)
RMul(p, q) == Rat(p.n * q.n, p.d * q.d)
RDiv(p, q) == Rat(p.n * q.d, p.d * q.n)
RGreater(p, q) == p.n * q.d > q.n * p.d

\* constants.py line 27 and 37.
LASER_LINE_ITERATIONS == 10
LASER_SLOPE_TOLERANCE == Rat(1, 100)

\* What the two RANSAC fits of lines 118-143 can yield (the except
\* clauses yield slope 0 and the mean position as intercept): the line
\* x = hor_slope * y + hor_intercept through the column positions found in
\* the sampled rows, and the line y = ver_slope * x + ver_intercept through
\* the row positions found in the sampled columns.
HorSlopes == {Rat(-1, 1), Whole(0), Rat(1, 2)}
VerSlopes == {Rat(k, 100) : k \in {-100, -1, 0, 1, 2, 100}}
Intercepts == {Whole(0), Whole(1), Rat(3, 2)}

Fits ==
    [hor_slope : HorSlopes, hor_intercept : Intercepts,
     ver_slope : VerSlopes, ver_intercept : Intercepts]

LaserCalls == [image_array : Images, roi_size : RoiSizes]

NoLaserArgs ==
    [image_array |-> [kind |-> "none", h |-> 0, w |-> 0, blank |-> FALSE],
     roi_size |-> 0]
NoFit ==
    [hor_slope |-> Whole(0), hor_intercept |-> Whole(0),
     ver_slope |-> Whole(0), ver_intercept |-> Whole(0)]
NoLaserResult == [kind |-> "none", x |-> Whole(0), y |-> Whole(0)]
LaserRaised(exc) == [kind |-> exc, x |-> Whole(0), y |-> Whole(0)]
LaserPoint(x, y) == [kind |-> "point", x |-> x, y |-> y]

\* No call of detect_laser_isocenter is under way.
LaserIdle ==
    /\ lpc = "idle"
    /\ largs = NoLaserArgs /\ lroi = NoRoi /\ fit = NoFit
    /\ lresult = NoLaserResult

\* Line 64-71: the input validation.
L_Validate ==
    /\ lpc = "validate"
    /\ LET kind == largs.image_array.kind
           exc == CASE kind = "not_array" -> "TypeError"
                    [] kind \in {"not_2d", "empty"} -> "ValueError"
                    [] OTHER -> "none"
       IN  IF exc = "none"
           THEN lpc' = "roi" /\ lresult' = lresult
           ELSE lpc' = "raised" /\ lresult' = LaserRaised(exc)
    /\ UNCHANGED <<svc, wrk, dev, cli, hist, obs, rdr, det, largs, lroi, fit,
                   mark>>

\* Line 73-81: h, w = image_array.shape and the region of interest
\* around (int(w / 2), int(h / 2)).
L_ExtractRoi ==
    /\ lpc = "roi"
    /\ LET h == largs.image_array.h
           w == largs.image_array.w
       IN  lroi' =
             [start_y |-> PyMax(0, (h \div 2) - largs.roi_size),
              end_y |-> PyMin(h, (h \div 2) + largs.roi_size),
              start_x |-> PyMax(0, (w \div 2) - largs.roi_size),
              end_x |-> PyMin(w, (w \div 2) + largs.roi_size)]
    /\ lpc' = "sample"
    /\ UNCHANGED <<svc, wrk, dev, cli, hist, obs, rdr, det, largs, fit,
                   lresult, mark>>

\* Line 100: idx = int((size_v / LASER_LINE_ITERATIONS) * (i + 1)), the
\* product with its fraction dropped (the floating-point product gives the
\* same whole number for every size_v up to 2000 and i in 0..8).
LineIndex(size_v, i) == (size_v * (i + 1)) \div LASER_LINE_ITERATIONS

\* numpy raises IndexError for an index that is not below the length of
\* the axis (the indices here are never negative).
IndexInBounds(idx, length) == idx < length

\* Line 92-111: size_v is the height of the region; for each i of
\* range(LASER_LINE_ITERATIONS - 1) the index idx selects the
\* column thresh[:, idx] and the row thresh[idx, :]. An index outside the
\* region raises IndexError, which nothing catches.
L_Sample ==
    /\ lpc = "sample"
    /\ LET size_v == RoiH(lroi)
           ok == \A i \in 0..(LASER_LINE_ITERATIONS - 2) :
                    /\ IndexInBounds(LineIndex(size_v, i), RoiW(lroi))
                    /\ IndexInBounds(LineIndex(size_v, i), RoiH(lroi))
       IN  IF ok
           THEN lpc' = "fit" /\ lresult' = lresult
           ELSE lpc' = "raised" /\ lresult' = LaserRaised("IndexError")
    /\ UNCHANGED <<svc, wrk, dev, cli, hist, obs, rdr, det, largs, lroi, fit,
                   mark>>

\* Line 116-143: the two RANSAC fits.
L_Fit ==
    /\ lpc = "fit"
    /\ fit' \in Fits
    /\ lpc' = "intersect"
    /\ UNCHANGED <<svc, wrk, dev, cli, hist, obs, rdr, det, largs, lroi,
                   lresult, mark>>

\* SlopeBeyondTolerance with >= in line 146.
SlopeAtOrBeyondTolerance(ver_slope) ==
    ~RGreater(LASER_SLOPE_TOLERANCE, RAbs(ver_slope))

\* Line 146: abs(ver_slope) > LASER_SLOPE_TOLERANCE
SlopeBeyondTolerance(ver_slope) ==
    RGreater(RAbs(ver_slope), LASER_SLOPE_TOLERANCE)

\* Line 152: abs(determinant) > 1e-10, that is n * 10^10 > d for the
\* fraction n / d = abs(determinant).
DeterminantUsable(determinant) ==
    Abs(determinant.n) > (determinant.d \div 100000) \div 100000

\* Line 148-150: determinant = -hor_slope + ori_ver_slope
Determinant(f) == RAdd(RNeg(f.hor_slope), RDiv(Whole(-1), f.ver_slope))

\* Line 146-170: the point returned.
L_Intersect ==
    /\ lpc = "intersect"
    /\ LET roi_start_x == Whole(lroi.start_x)
           roi_start_y == Whole(lroi.start_y)
           hor_slope == fit.hor_slope
           hor_intercept == fit.hor_intercept
           ver_slope == fit.ver_slope
           ver_intercept == fit.ver_intercept
           ori_ver_slope == RDiv(Whole(-1), ver_slope)
           ori_ver_intercept == RDiv(RNeg(hor_intercept), ver_slope)
           determinant == Determinant(fit)
       IN  lresult' =
             IF SlopeBeyondTolerance(ver_slope)
                  /\ DeterminantUsable(determinant)
             THEN LaserPoint(
                    RAdd(roi_start_x,
                         RDiv(RAdd(RNeg(ori_ver_intercept), hor_intercept),
                              determinant)),
                    RAdd(roi_start_y,
                         RDiv(RAdd(RMul(hor_intercept, ori_ver_slope),
                                   RNeg(RMul(ori_ver_intercept, hor_slope))),
                              determinant)))
             ELSE LaserPoint(RAdd(roi_start_x, hor_intercept),
                             RAdd(roi_start_y, ver_intercept))
    /\ lpc' = "done"
    /\ UNCHANGED <<svc, wrk, dev, cli, hist, obs, rdr, det, largs, lroi, fit,
                   mark>>

\* ------------------------------------------------------------ specification

\* A service has been constructed; there are no reader threads and no
\* call of the detector.
Init == ServiceNew /\ ReadersIdle /\ DetectorIdle /\ LaserIdle

Next == Worker \/ Client

\* The service, its worker and one client thread.
Spec == Init /\ [][Next]_vars

\* The steps of the client that end a `with lock:` block.
ClientRelease == C_StateRel \/ C_FrameRel \/ C_BrightRel

\* A client that starts and stops the service, switches measurement on and
\* off and reads the two frames (so that it takes each of the three locks).
ClientStop ==
    \/ C_Start \/ C_StopSet \/ C_StopJoined \/ C_StopTimeout
    \/ C_EnableCalculation \/ C_DisableCalculation \/ C_StateRel
    \/ C_GetCurrentFrame \/ C_FrameRel
    \/ C_GetBrightestFrame \/ C_BrightRel

NextStop == Worker \/ ClientStop

\* The service and that client under the scheduling the threads get: the
\* worker thread keeps running whenever it can take a step (a lock that is
\* released again and again is eventually acquired, a cap.read() that can
\* return does return), and a client inside a `with lock:` block leaves
\* it. Nothing obliges the client to call anything.
SpecFair ==
    /\ Init
    /\ [][NextStop]_vars
    /\ SF_vars(Worker)
    /\ WF_vars(ClientRelease)

\* test_concurrent_reads_are_thread_safe: the service with measurement
\* enabled (line 134) and start() called (line 130), before its worker ran.
InitReaders ==
    /\ _stop_event = FALSE
    /\ _state_lock = "free" /\ _frame_lock = "free" /\ _brightness_lock = "free"
    /\ _camera_is_online = FALSE
    /\ _current_frame = NoneFrame
    /\ _current_brightness = 0
    /\ _calculation_enabled = TRUE
    /\ _max_brightness = 0
    /\ _brightest_frame = NoneFrame
    /\ wpc = "open" /\ cap = "None" /\ frame = NoneFrame /\ enabled_seen = FALSE
    /\ opens = 0 /\ reads = 0 /\ releases = 0
    /\ cpc = "idle" /\ held = NoneFrame /\ ret = 0
    /\ exitCause = "none" /\ analysed = <<>> /\ lastStop = "never"
    /\ startRaised = FALSE
    /\ lastRead = "none" /\ cbRaised = FALSE
    /\ mark = NoMark
    /\ ReadersIdle /\ DetectorIdle /\ LaserIdle

NextReaders == Worker \/ Reader

\* The worker and the reader threads.
SpecReaders == InitReaders /\ [][NextReaders]_vars

\* A call of detect_dr_center is entered with any of the arguments (the
\* service plays no part in it).
InitDr ==
    /\ ServiceNew /\ ReadersIdle /\ LaserIdle
    /\ dpc = "validate"
    /\ args \in DrCalls
    /\ crop_roi = NoRoi /\ contours = <<>>
    /\ filtered_contours = <<>> /\ result = NoResult

NextDr ==
    D_Validate \/ D_ExtractRoi \/ D_FindContours \/ D_Filter \/ D_Select

\* One call of detect_dr_center.
SpecDr == InitDr /\ [][NextDr]_vars

\* The thread of the application: it connects the camera, presses the
\* capture button and reads the current brightness.
ClientApp ==
    \/ C_ConnectCamera \/ C_Toggle
    \/ C_GetCurrentBrightness \/ C_BrightRel

NextApp == Worker \/ ClientApp

\* The service driven by ApplicationController.
SpecApp == Init /\ [][NextApp]_vars

\* A call of detect_laser_isocenter is entered with any of the arguments.
InitLaser ==
    /\ ServiceNew /\ ReadersIdle /\ DetectorIdle
    /\ lpc = "validate"
    /\ largs \in LaserCalls
    /\ lroi = NoRoi /\ fit = NoFit /\ lresult = NoLaserResult

NextLaser == L_Validate \/ L_ExtractRoi \/ L_Sample \/ L_Fit \/ L_Intersect

\* One call of detect_laser_isocenter.
SpecLaser == InitLaser /\ [][NextLaser]_vars

\* Both detectors are called with the same image and the same roi_size.
InitRoi ==
    /\ ServiceNew /\ ReadersIdle
    /\ dpc = "validate"
    /\ args \in DrCalls
    /\ crop_roi = NoRoi /\ contours = <<>>
    /\ filtered_contours = <<>> /\ result = NoResult
    /\ lpc = "validate"
    /\ largs = [image_array |-> args.image_array, roi_size |-> args.roi_size]
    /\ lroi = NoRoi /\ fit = NoFit /\ lresult = NoLaserResult

NextRoi == D_Validate \/ D_ExtractRoi \/ L_Validate \/ L_ExtractRoi

\* The two calls as far as their regions of interest.
SpecRoi == InitRoi /\ [][NextRoi]_vars

\* A client that starts the service and takes each of the three locks.
ClientLocks ==
    \/ C_Start
    \/ C_EnableCalculation \/ C_DisableCalculation \/ C_StateRel
    \/ C_GetCurrentFrame \/ C_FrameRel
    \/ C_GetBrightestFrame \/ C_BrightRel

NextObserver == Worker \/ Observer \/ ClientLocks

\* The worker with an observer that calls accessors of the service, and
\* that client, under the scheduling the threads get: the worker thread
\* (the observer runs on it) keeps running whenever it can take a step,
\* and a client inside a `with lock:` block leaves it.
SpecObserver ==
    /\ Init
    /\ [][NextObserver]_vars
    /\ SF_vars(Worker \/ Observer)
    /\ WF_vars(ClientRelease)


\* ================================================================== claims

\* The largest element of a non-empty set of integers.
MaxOf(S) == CHOOSE m \in S : \A x \in S : x <= m

\* The pixel sums of the frames analysed since the last reset.
AnalysedSums == {SumPx(analysed[i]) : i \in 1..Len(analysed)}

\* The first analysed frame whose pixel sum is m.
FirstWithSum(m) ==
    analysed[CHOOSE i \in 1..Len(analysed) :
                /\ SumPx(analysed[i]) = m
                /\ \A j \in 1..(i - 1) : SumPx(analysed[j]) # m]

\* ---- C1
\* C1: a reader that saw is_camera_online() == True and then called
\* get_current_frame() (capture_image, app.py 72-77) never receives None.
\* The worker sets the online flag (line 86) before it stores the first
\* frame (line 90), so the reader can run in between.
C1_OnlineReaderGetsFrame == cpc = "cap_got" => held # NoneFrame

\* ---- C2
\* C2 as claimed: after any stop() on a started service has returned,
\* is_alive() is False.
C2_StoppedMeansNotAlive == lastStop \in {"joined", "timeout"} => ~is_alive

\* C2 amended: a stop() in progress can always return (the join returns or
\* times out); after every stop() the stop flag is set; and after a stop()
\* that returned without the timeout warning is_alive() is False.
C2_StopIdempotent ==
    /\ cpc = "stop_join" => ENABLED (C_StopJoined \/ C_StopTimeout)
    /\ lastStop # "never" => _stop_event
    /\ lastStop = "joined" => ~is_alive

\* A second stop() is under way after a first one stopped a running worker.
C2_Witness ==
    /\ cpc = "stop_join" /\ lastStop = "joined"
    /\ wpc = "done" /\ exitCause = "stop"

\* ---- C3
\* C3 as claimed: start() on a service whose worker is running does not
\* raise and changes nothing.
C3_SecondStartIsNoop ==
    [][(C_Start /\ is_alive) => (~startRaised' /\ UNCHANGED <<svc, wrk, dev>>)]_vars

\* C3 amended: start() on a service whose worker is running raises
\* RuntimeError; it spawns no second worker (the worker's position and
\* locals are untouched) and the source is never opened a second time.
C3_SecondStartRaises ==
    /\ [](opens <= 1)
    /\ [][(C_Start /\ is_alive) => (startRaised' /\ UNCHANGED <<svc, wrk, dev>>)]_vars

\* start() has raised on a worker that is running with its source open.
C3_Witness == startRaised /\ is_alive /\ opens = 1 /\ cap = "cap"

\* ---- C4
\* C4: once the worker has terminated and the capture object had been
\* created, release() was called on it exactly once, whatever ended the loop.
C4_ReleasedExactlyOnce ==
    /\ (wpc = "done" /\ cap # "None") => releases = 1
    /\ releases <= 1

\* The worker terminated because cap.read() raised, and released the source.
C4_Witness == wpc = "done" /\ exitCause = "read_raised" /\ releases = 1

\* ---- C5
\* C5: a buffer handed out by get_current_frame() or get_brightest_frame()
\* is never the stored object, and writing into it changes neither the
\* stored current frame nor the stored brightest frame.
C5_CopiesAreIndependent ==
    /\ [](held.id \notin {"cur", "max"})
    /\ [][C_Mutate => (_current_frame' = _current_frame
                       /\ _brightest_frame' = _brightest_frame)]_vars

\* The caller has overwritten its copy; the stored frame still differs.
C5_Witness ==
    /\ cpc = "mutated" /\ held.id = "ret"
    /\ _current_frame # NoneFrame /\ held.px # _current_frame.px
    /\ _brightest_frame # NoneFrame /\ held.px # _brightest_frame.px

\* ---- C6
\* C6 as claimed: whenever no brightness update is in flight and at least
\* one frame was analysed since the last reset, the maximum is the largest
\* pixel sum among them and the brightest frame is a frame that attained it.
C6_BrightestIsAFrame ==
    (_brightness_lock = "free" /\ analysed # <<>>) =>
        /\ _max_brightness = MaxOf(AnalysedSums)
        /\ _brightest_frame # NoneFrame
        /\ SumPx(_brightest_frame.px) = _max_brightness
        /\ \E i \in 1..Len(analysed) : analysed[i] = _brightest_frame.px

\* C6 amended: the maximum is the largest pixel sum among the analysed
\* frames; when it is positive the brightest frame is the first frame that
\* attained it (later frames that are not brighter change nothing), and
\* when it is 0 (only all-black frames) there is no brightest frame.
C6_MaxTracking ==
    _brightness_lock = "free" =>
        /\ _max_brightness = MaxOf(AnalysedSums \cup {0})
        /\ _max_brightness > 0 =>
              /\ _brightest_frame # NoneFrame
              /\ _brightest_frame.px = FirstWithSum(_max_brightness)
        /\ _max_brightness = 0 => _brightest_frame = NoneFrame

\* Three frames of rising then falling brightness have been analysed, the
\* last one a different frame as bright as the first.
C6_Witness ==
    /\ _brightness_lock = "free" /\ Len(analysed) = 3
    /\ SumPx(analysed[1]) < SumPx(analysed[2])
    /\ SumPx(analysed[3]) < SumPx(analysed[2])
    /\ _brightest_frame.px = analysed[2]
    /\ _max_brightness = SumPx(analysed[2])

\* ---- C7
\* C7: whenever the brightness lock is free, _brightest_frame is set iff
\* _max_brightness > 0; and a step that changes either of them is taken by
\* the thread that holds the brightness lock (or replaces the service).
C7_RecordInvariant ==
    /\ [](_brightness_lock = "free" =>
            (_brightest_frame # NoneFrame <=> _max_brightness > 0))
    /\ [][(_max_brightness' # _max_brightness
              \/ _brightest_frame' # _brightest_frame) =>
            \/ wpc' # wpc /\ cpc' = cpc /\ _brightness_lock' = "worker"
            \/ cpc' # cpc /\ wpc' = wpc /\ _brightness_lock' = "client"
            \/ wpc = "done" /\ wpc' = "open"]_vars

\* A brightest frame is recorded and no update is in flight.
C7_Witness ==
    /\ _brightness_lock = "free" /\ wpc = "loop"
    /\ _brightest_frame # NoneFrame /\ _max_brightness > 0
    /\ Len(analysed) >= 2

\* ---- C8
\* C8: get_max_brightness() called right after reset_calculation() returned
\* returns 0, and get_brightest_frame() called next returns None
\* (tests/services/test_video_stream_service.py:211-215).
C8_ResetThenZero ==
    /\ cpc = "rmax_done" => ret = 0
    /\ cpc = "rframe_done" => held = NoneFrame

\* ---- C9
\* C9: after the source failed to open, the worker is on its way out (only
\* the cleanup is left, and it is never blocked) or has terminated; it has
\* performed no read, stored no current frame, and the online flag is False.
C9_OpenFailureExits ==
    exitCause = "open_failed" =>
        /\ wpc \in {"finally", "done"}
        /\ wpc = "finally" => ENABLED W_Finally
        /\ reads = 0
        /\ _current_frame = NoneFrame
        /\ ~_camera_is_online

\* The worker has terminated after a failed open.
C9_Witness ==
    /\ exitCause = "open_failed" /\ wpc = "done"
    /\ reads = 0 /\ _current_frame = NoneFrame /\ ~_camera_is_online

\* ---- C10
\* C10 as claimed: after the source failed to open the worker stays alive
\* for as long as stop() has not been called.
C10_OpenFailureKeepsAlive ==
    (exitCause = "open_failed" /\ ~_stop_event) => is_alive

\* C10 amended: after the source failed to open the worker does not retry:
\* the source was opened exactly once, and the worker releases it and
\* terminates whether or not stop() is called.
C10_OpenFailureNoRetry ==
    exitCause = "open_failed" =>
        /\ opens = 1
        /\ \/ wpc = "finally" /\ releases = 0
           \/ wpc = "done" /\ releases = 1

\* The worker has terminated after a failed open though nobody called stop().
C10_Witness ==
    /\ exitCause = "open_failed" /\ wpc = "done" /\ releases = 1
    /\ ~_stop_event /\ lastStop = "never"

\* C11: an exception raised by the observer callback does not terminate the
\* worker: while the frame whose callback raised is in progress the worker
\* is alive and inside the same iteration, _current_frame still holds the
\* copy of that frame, the brightness step runs for it when measurement is
\* found enabled, and what it records is the sum of that same frame.
C11_CallbackErrorIsolated ==
    /\ [](cbRaised =>
            /\ wpc \in {"enabled", "enabled_rel", "ba_cur", "ba_max"}
            /\ frame # NoneFrame
            /\ _current_frame = FrameCopy(frame, "cur")
            /\ wpc = "ba_max" =>
                  /\ analysed # <<>>
                  /\ analysed[Len(analysed)] = frame.px
                  /\ _current_brightness = SumPx(frame.px))
    /\ [][(wpc = "cb_except" /\ wpc' # wpc) =>
            (wpc' = "enabled" /\ cbRaised')]_vars
    /\ [][(cbRaised /\ wpc = "enabled_rel" /\ wpc' # wpc) =>
            IF enabled_seen THEN wpc' = "ba_cur" /\ cbRaised'
                            ELSE wpc' = "loop"]_vars

\* The callback raised for a frame of non-zero brightness, and the
\* brightness of that frame has been recorded.
C11_Witness ==
    /\ cbRaised /\ wpc = "ba_max"
    /\ SumPx(frame.px) > 0
    /\ _current_brightness = SumPx(frame.px)
    /\ _current_frame.px = frame.px

\* C12: is_camera_online() returns True only if the most recent read from
\* the source succeeded, also after a read raised and after the worker
\* has terminated.
C12_OnlineOnlyAfterGoodRead ==
    (cpc = "cap_online_rel" /\ ret = 1) => lastRead = "frame"

\* C13: when the worker does not exit within the join timeout (it is
\* blocked inside cap.read()), stop() can still return, and only through
\* the timeout branch; a stop() that returns while the worker is alive
\* leaves the worker untouched and alive and the stop flag set, and the
\* flag is set in every later state of that service.
C13_StopTimesOut ==
    /\ []((cpc = "stop_join" /\ wpc = "read" /\ reads = MaxReads) =>
            (ENABLED C_StopTimeout /\ ~ENABLED C_StopJoined))
    /\ [](lastStop = "timeout" => _stop_event)
    /\ [][(cpc = "stop_join" /\ cpc' = "idle" /\ is_alive) =>
            /\ lastStop' = "timeout"
            /\ is_alive' /\ wrk' = wrk
            /\ _stop_event /\ _stop_event']_vars

\* stop() has returned after its join timed out on a worker blocked in
\* cap.read(): the worker is alive and the stop flag is set.
C13_Witness ==
    /\ lastStop = "timeout" /\ cpc = "idle"
    /\ wpc = "read" /\ reads = MaxReads
    /\ is_alive /\ _stop_event

\* The pixel buffers the source has delivered (with measurement enabled
\* and never reset, every frame is analysed before the next read).
Delivered ==
    {analysed[i] : i \in DOMAIN analysed}
        \cup (IF frame = NoneFrame THEN {} ELSE {frame.px})

\* C14: with several readers calling the four read accessors while the
\* worker runs, every accessor call returns (its lock is released by the
\* reader that took it, no call raises), every frame returned is None or
\* has, as a whole, the pixels of one delivered frame in an object of its
\* own, and every number returned is 0 or the pixel sum of one delivered
\* frame.
C14_NoTornReads ==
    \A r \in Readers :
        /\ rret[r].frame # NoneFrame =>
              /\ rret[r].frame.px \in Delivered
              /\ rret[r].frame.id = "ret"
        /\ rret[r].value \in {0} \cup {SumPx(p) : p \in Delivered}
        /\ rpc[r] = "frame_rel" => (_frame_lock = r /\ ENABLED R_FrameRel(r))
        /\ rpc[r] = "brightness_rel" =>
              (_brightness_lock = r /\ ENABLED R_BrightnessRel(r))

\* Two readers hold different frames while the worker stores a third one.
C14_Witness ==
    /\ rret["r1"].frame # NoneFrame /\ rret["r2"].frame # NoneFrame
    /\ rret["r1"].frame.px # rret["r2"].frame.px
    /\ rpc["r2"] = "brightness_rel"
    /\ wpc = "store_rel"
    /\ _current_frame.px \notin {rret["r1"].frame.px, rret["r2"].frame.px}

\* C15: for every valid image, detect_dr_center raises ValueError when
\* max_area < min_area, before a region of interest is cut out and before
\* any contour is looked for, and it raises nothing when
\* max_area >= min_area, equal limits included.
C15_AreaLimitsChecked ==
    (args.image_array.kind = "ok" /\ dpc # "validate") =>
        IF args.max_area < args.min_area
        THEN /\ dpc = "raised" /\ result = Raised("ValueError")
             /\ crop_roi = NoRoi /\ contours = <<>>
             /\ filtered_contours = <<>>
        ELSE /\ dpc # "raised" /\ result.kind \in {"none", "point"}
             /\ dpc # "done" => ENABLED NextDr

\* The call raised for a valid image with max_area below min_area.
C15_Witness ==
    /\ dpc = "raised" /\ args.image_array.kind = "ok"
    /\ args.max_area < args.min_area
    /\ result.kind = "ValueError"

\* The point the region of interest is built around.
DrFallback == Point(args.image_array.w \div 2, args.image_array.h \div 2)

\* No contour found has an area strictly inside (min_area, max_area), or
\* the contour selected has m00 at or below the threshold.
DrNothingUsable ==
    \/ \A i \in DOMAIN contours :
          ~(args.min_area < contours[i].area
              /\ contours[i].area < args.max_area)
    \/ /\ filtered_contours # <<>>
       /\ LargestContour(filtered_contours).area <= 0

\* C16 as claimed: the call returns the fallback point whenever nothing
\* usable was found, and an all-zero image is an input for which nothing
\* usable is found.
C16_BlankImageFallsBack ==
    dpc = "done" =>
        /\ DrNothingUsable => result = DrFallback
        /\ args.image_array.blank => DrNothingUsable

\* What holds of C16: a call that passed validation runs to its end
\* without raising and returns the fallback point whenever nothing usable
\* was found; for an all-zero image that is the case exactly when the area
\* (rw - 1) * (rh - 1) of the contour around the region of interest is 0
\* or not strictly inside (min_area, max_area), and otherwise the call
\* returns the centroid of that contour.
C16_FallbackRule ==
    /\ dpc \in {"roi", "find", "filter", "select"} => ENABLED NextDr
    /\ dpc = "done" =>
          /\ result.kind = "point"
          /\ DrNothingUsable => result = DrFallback
          /\ args.image_array.blank =>
                LET border == (RoiW(crop_roi) - 1) * (RoiH(crop_roi) - 1)
                IN  IF /\ border > 0
                       /\ args.min_area < border
                       /\ border < args.max_area
                    THEN result =
                           Point(crop_roi.start_x + (RoiW(crop_roi) - 1) \div 2,
                                 crop_roi.start_y + (RoiH(crop_roi) - 1) \div 2)
                    ELSE DrNothingUsable

\* A call on an image that is not all zero found contours, none of them
\* of an area strictly inside the limits (one has exactly the area
\* min_area), and returned.
C16_FallbackReached ==
    /\ dpc = "done" /\ ~args.image_array.blank
    /\ Len(contours) = 2 /\ filtered_contours = <<>>
    /\ contours[1].area = args.min_area /\ contours[1].area > 0
    /\ result = DrFallback
    /\ result # Point(crop_roi.start_x + PyInt(contours[1].cx2),
                       crop_roi.start_y + PyInt(contours[1].cy2))

\* C18: after a read that returned no frame the worker sets the online
\* flag to False, stays alive unless stop() is called, keeps its capture
\* object (opened once, not released while the loop runs) and, back at the
\* loop test with the stop flag clear, reads from it again.
C18_ReadFailureRetries ==
    /\ [](lastRead = "no_frame" =>
            /\ wpc \in {"offline", "offline_rel", "loop", "read",
                         "finally", "done"}
            /\ wpc # "offline" => ~_camera_is_online
            /\ wpc \in {"finally", "done"} => exitCause = "stop"
            /\ cap = "cap" /\ opens = 1
            /\ releases = IF wpc = "done" THEN 1 ELSE 0)
    /\ [](reads > 0 => opens = 1)
    /\ [][(lastRead = "no_frame" /\ is_alive /\ wpc' # wpc) =>
            /\ cap' = cap /\ opens' = opens
            /\ wpc = "offline" => wpc' = "offline_rel"
            /\ wpc = "offline_rel" => wpc' = "loop"
            /\ (wpc = "loop" /\ ~_stop_event) => wpc' = "read"]_vars

\* Every read of the worker's life returned no frame: the worker is alive,
\* offline, and waiting in its next read on the capture object it opened.
C18_Witness ==
    /\ lastRead = "no_frame" /\ reads = MaxReads /\ wpc = "read"
    /\ _current_frame = NoneFrame
    /\ ~_camera_is_online /\ opens = 1 /\ releases = 0

\* The positions of the worker after line 90 has stored the frame of the
\* iteration, up to the next evaluation of line 80.
AfterStore ==
    {"store_rel", "callback", "cb_except", "enabled", "enabled_rel",
     "ba_cur", "ba_max", "ba_frame", "ba_rel"}

\* cap.read() is the pending call and does not return.
ReadPending == wpc = "read" /\ reads = MaxReads

\* C19: the stop flag is looked at only by the loop test. A frame read
\* while the flag is set goes through the whole iteration (the loop is
\* left only from the loop test, or by an exception of the source: never
\* between the read of a frame and the next loop test; the frame is
\* stored as current, the callback is called, its brightness is recorded
\* when measurement is found enabled); a read is begun only by a loop test
\* that found the flag clear, and a loop test that finds it set ends the
\* loop; and a worker whose stop flag is set terminates, unless its
\* pending read never returns.
C19_CooperativeStop ==
    /\ [][(is_alive /\ wpc' # wpc) =>
            /\ wpc' = "finally" => wpc \in {"open", "loop", "read"}
            /\ wpc' = "read" => (wpc = "loop" /\ ~_stop_event)
            /\ (wpc = "loop" /\ _stop_event) =>
                  (wpc' = "finally" /\ reads' = reads)
            /\ wpc = "online_rel" => wpc' = "store"
            /\ wpc = "store_rel" => wpc' = "callback"
            /\ wpc = "callback" => wpc' \in {"enabled", "cb_except"}
            /\ (wpc = "enabled_rel" /\ enabled_seen) => wpc' = "ba_cur"
            /\ wpc = "ba_cur" => analysed' = Append(analysed, frame.px)]_vars
    /\ [](wpc \in AfterStore => _current_frame = FrameCopy(frame, "cur"))
    /\ ((_stop_event /\ is_alive) ~> (~is_alive \/ ReadPending))

\* stop() has set the flag while a read was pending; the read then
\* delivered a frame, which is stored and whose brightness is recorded,
\* and no further read has begun.
C19_Witness ==
    /\ _stop_event /\ cpc = "stop_join"
    /\ wpc = "ba_rel" /\ reads = 1
    /\ lastRead = "frame"
    /\ _current_frame = FrameCopy(frame, "cur")
    /\ analysed = <<frame.px>>

\* The locks a thread holds.
HeldBy(t) ==
    {l \in {"state", "frame", "brightness"} :
        t = CASE l = "state" -> _state_lock
              [] l = "frame" -> _frame_lock
              [] OTHER -> _brightness_lock}

\* C20: no thread holds more than one of the three locks; a thread that
\* holds one can take its next step (it waits for nothing), so no wait for
\* a lock lasts for ever; and a thread at the point of taking the frame
\* lock takes it as soon as that lock is free, whoever holds the
\* brightness lock, and likewise with the two locks exchanged.
C20_OneLockAtATime ==
    /\ Cardinality(HeldBy("worker")) <= 1
    /\ Cardinality(HeldBy("client")) <= 1
    /\ HeldBy("worker") # {} => ENABLED Worker
    /\ HeldBy("client") # {} => ENABLED Client
    /\ (wpc = "store" /\ _frame_lock = "free") => ENABLED W_StoreFrame
    /\ (wpc = "ba_cur" /\ _brightness_lock = "free") =>
          ENABLED W_BrightnessCur
    /\ (cpc = "idle" /\ _frame_lock = "free") => ENABLED C_GetCurrentFrame
    /\ (cpc = "idle" /\ _brightness_lock = "free") =>
          ENABLED C_GetBrightestFrame

\* The worker is about to take the frame lock, which is free, while the
\* client holds the brightness lock inside reset_calculation().
C20_Witness ==
    /\ wpc = "store" /\ _frame_lock = "free"
    /\ _brightness_lock = "client" /\ cpc = "reset_frame"
    /\ HeldBy("worker") = {}

\* The positions of the worker from the delivery of a frame up to the
\* return of _is_calculation_enabled() (lines 83-100).
BeforeBrightness ==
    {"online", "online_rel", "store", "store_rel", "callback", "cb_except",
     "enabled", "enabled_rel"}

\* C21: for each frame read, the worker sets the online flag, then stores
\* the copy as current frame, then invokes the observer, then looks at the
\* measurement flag and only then updates the brightness; so while the
\* observer runs for frame f the online flag is True, the current frame is
\* the copy of f (get_current_frame() returns the pixels of f), and since
\* f was read no step of the worker has written the current brightness,
\* the maximum or the brightest frame.
C21_FrameStepsInOrder ==
    /\ [][(is_alive /\ wpc' # wpc) =>
            /\ wpc = "online" => (wpc' = "online_rel" /\ _camera_is_online')
            /\ wpc = "online_rel" => wpc' = "store"
            /\ wpc = "store" =>
                  (wpc' = "store_rel"
                     /\ _current_frame' = FrameCopy(frame, "cur"))
            /\ wpc = "store_rel" => wpc' = "callback"
            /\ wpc = "callback" => wpc' \in {"enabled", "cb_except"}
            /\ wpc = "cb_except" => wpc' = "enabled"
            /\ wpc = "enabled" => wpc' = "enabled_rel"
            /\ wpc = "enabled_rel" =>
                  wpc' = IF enabled_seen THEN "ba_cur" ELSE "loop"
            /\ wpc \in BeforeBrightness =>
                  UNCHANGED <<_current_brightness, _max_brightness,
                              _brightest_frame>>]_vars
    /\ [](wpc = "callback" =>
            /\ _camera_is_online
            /\ frame # NoneFrame
            /\ _current_frame = FrameCopy(frame, "cur")
            /\ HandOut(_current_frame).px = frame.px
            /\ _brightness_lock # "worker")

\* The observer is running for a frame whose brightness differs from the
\* one recorded for the frame before it; measurement is enabled.
C21_Witness ==
    /\ wpc = "callback" /\ _calculation_enabled
    /\ analysed # <<>> /\ reads = 2
    /\ _current_frame.px = frame.px
    /\ _current_brightness # SumPx(frame.px)
    /\ _max_brightness < SumPx(frame.px)

\* C22: what get_current_brightness() returns is the sum of the pixel
\* values of the current frame, the frame get_current_frame() returns at
\* that moment.
C22_BrightnessOfCurrentFrame ==
    [][C_GetCurrentBrightness => ret' = SumPx(_current_frame.px)]_vars

\* The contours found whose area lies strictly between the limits.
DrCandidates ==
    {i \in DOMAIN contours :
        args.min_area < contours[i].area /\ contours[i].area < args.max_area}

\* A candidate no other candidate exceeds in area.
DrLargest(i) ==
    /\ i \in DrCandidates
    /\ \A j \in DrCandidates : contours[j].area <= contours[i].area

\* The result is the origin of the region of interest plus the centroid of
\* contour i with its fractions dropped.
DrResultIsCentroidOf(i) ==
    /\ result.kind = "point"
    /\ LET kx == result.x - crop_roi.start_x
           ky == result.y - crop_roi.start_y
       IN  /\ 2 * kx <= contours[i].cx2 /\ contours[i].cx2 < 2 * kx + 2
           /\ 2 * ky <= contours[i].cy2 /\ contours[i].cy2 < 2 * ky + 2

\* What passed the filter is exactly the candidates, in their order.
DrFilterKeepsCandidates ==
    /\ Len(filtered_contours) = Cardinality(DrCandidates)
    /\ \A k \in DOMAIN filtered_contours :
          \E i \in DrCandidates : filtered_contours[k] = contours[i]

\* C23 as claimed: in detect_dr_center the contours with
\* min_area < area < max_area are the candidates (an area equal to a limit
\* is excluded), and whenever there is a candidate the result is the
\* origin of the region of interest plus the truncated centroid of a
\* candidate of largest area.
C23_LargestCandidateWins ==
    dpc = "done" =>
        /\ DrFilterKeepsCandidates
        /\ DrCandidates # {} =>
              \E i \in DrCandidates :
                  DrLargest(i) /\ DrResultIsCentroidOf(i)

\* C23 amended: the candidates are the contours with
\* min_area < area < max_area; when the largest area among them is
\* positive the result is the origin of the region of interest plus the
\* truncated centroid of a candidate of that area, and when it is 0 (a
\* negative min_area lets contours of area 0 pass) the result is the
\* fallback point (int(w / 2), int(h / 2)).
C23_LargestCandidateOrFallback ==
    dpc = "done" =>
        /\ DrFilterKeepsCandidates
        /\ \A i \in DrCandidates :
              DrLargest(i) =>
                  IF contours[i].area > 0
                  THEN \E j \in DrCandidates :
                          DrLargest(j) /\ DrResultIsCentroidOf(j)
                  ELSE result = DrFallback

\* Two candidates were found, the second the larger one and with a
\* centroid between two pixels; the result is its truncated centroid,
\* which is neither the centroid of the first nor the fallback point.
C23_Witness ==
    /\ dpc = "done" /\ Len(contours) = 2 /\ DrCandidates = {1, 2}
    /\ contours[1].area < contours[2].area
    /\ contours[2].cx2 % 2 = 1
    /\ DrResultIsCentroidOf(2) /\ ~DrResultIsCentroidOf(1)
    /\ result # DrFallback

\* The point returned, relative to the origin of the region of interest.
LaserX == RAdd(lresult.x, RNeg(Whole(lroi.start_x)))
LaserY == RAdd(lresult.y, RNeg(Whole(lroi.start_y)))

\* C24: when |ver_slope| > 0.01 and |determinant| > 1e-10, the point
\* returned by detect_laser_isocenter, taken relative to the region of
\* interest, lies on both fitted lines: x = hor_slope * y + hor_intercept
\* and y = ver_slope * x + ver_intercept.
C24_IntersectionOfFittedLines ==
    (/\ lpc = "done"
     /\ RGreater(RAbs(fit.ver_slope), Rat(1, 100))
     /\ DeterminantUsable(Determinant(fit))) =>
        /\ LaserX = RAdd(RMul(fit.hor_slope, LaserY), fit.hor_intercept)
        /\ LaserY = RAdd(RMul(fit.ver_slope, LaserX), fit.ver_intercept)

\* The closed form of what lines 148-160 compute from the fit
\* (a, b, c, d) = (hor_slope, hor_intercept, ver_slope, ver_intercept):
\* x = -b (1 + c) / (a c + 1) and y = b (1 - a) / (a c + 1).
LaserBranchPoint ==
    LET a == fit.hor_slope
        b == fit.hor_intercept
        c == fit.ver_slope
        acp1 == RAdd(RMul(a, c), Whole(1))
    IN  LaserPoint(
          RAdd(Whole(lroi.start_x),
               RDiv(RNeg(RMul(b, RAdd(Whole(1), c))), acp1)),
          RAdd(Whole(lroi.start_y),
               RDiv(RMul(b, RAdd(Whole(1), RNeg(a))), acp1)))

\* C25: detect_laser_isocenter returns (roi_start_x + hor_intercept,
\* roi_start_y + ver_intercept) whenever |ver_slope| <= 0.01, the value
\* 0.01 itself included, and whenever |determinant| <= 1e-10; only with
\* |ver_slope| > 0.01 (and a usable determinant) does it return what the
\* other branch computes. (For the fits drawn here |determinant| is at
\* most 1e-10 only when it is 0, that is when hor_slope * ver_slope = -1.)
C25_ParallelWithinTolerance ==
    lpc = "done" =>
        LET c == fit.ver_slope
            within == 100 * Abs(c.n) <= c.d
            singular ==
                RAdd(RMul(fit.hor_slope, c), Whole(1)) = Whole(0)
        IN  IF within \/ singular
            THEN lresult =
                   LaserPoint(
                     RAdd(Whole(lroi.start_x), fit.hor_intercept),
                     RAdd(Whole(lroi.start_y), fit.ver_intercept))
            ELSE lresult = LaserBranchPoint

\* A call whose ver_slope is exactly 0.01 returned the two intercepts,
\* which is not what the other branch would have returned.
C25_Witness ==
    /\ lpc = "done" /\ fit.ver_slope = Rat(1, 100)
    /\ fit.hor_intercept = Rat(3, 2) /\ fit.ver_intercept = Whole(1)
    /\ lresult = LaserPoint(RAdd(Whole(lroi.start_x), Rat(3, 2)),
                            RAdd(Whole(lroi.start_y), Whole(1)))
    /\ lresult # LaserBranchPoint

\* The region lies inside an image of h rows and w columns and is not
\* empty.
RoiInside(roi, h, w) ==
    /\ 0 <= roi.start_x /\ roi.start_x < roi.end_x /\ roi.end_x <= w
    /\ 0 <= roi.start_y /\ roi.start_y < roi.end_y /\ roi.end_y <= h

\* C26: for every image of at least one row and one column and every
\* roi_size >= 1, the region of interest each of the two detectors cuts
\* out around (int(w / 2), int(h / 2)) has 0 <= start < end <= dimension
\* on both axes.
C26_RoiInsideImage ==
    /\ dpc = "find" =>
          RoiInside(crop_roi, args.image_array.h, args.image_array.w)
    /\ lpc = "sample" =>
          RoiInside(lroi, largs.image_array.h, largs.image_array.w)

\* Both detectors have cut their region out of an image of one row and
\* four columns: it is clipped to the single row and not clipped in width.
C26_Witness ==
    /\ dpc = "find" /\ lpc = "sample"
    /\ args.image_array.h = 1 /\ args.image_array.w = 4
    /\ args.roi_size = 1
    /\ crop_roi = [start_x |-> 1, start_y |-> 0, end_x |-> 3, end_y |-> 1]
    /\ lroi = crop_roi

\* C29: detect_laser_isocenter never indexes outside its region of
\* interest: for every valid image and roi_size >= 1 each of the nine
\* indices int((size_v / 10) * (i + 1)), i = 0..8, is below the height
\* and below the width of the region, and no IndexError is raised.
C29_SampleIndicesInsideRoi ==
    lpc \in {"fit", "intersect", "done", "raised"} =>
        /\ lresult.kind # "IndexError"
        /\ largs.image_array.kind = "ok" =>
              \A i \in 0..8 :
                  LET idx == (RoiH(lroi) * (i + 1)) \div 10
                  IN  idx < RoiH(lroi) /\ idx < RoiW(lroi)

\* The positions of the worker while the observer of line 95 runs.
InObserver ==
    {"callback"} \cup {ObsWaiting(l) : l \in LockNames}
                 \cup {ObsInside(l) : l \in LockNames}

\* C27: the observer is invoked while the worker holds none of the three
\* locks, and holds none when it returns or raises; inside the observer
\* the worker holds only the lock of the accessor it is in, and that
\* accessor returns; a lock the observer waits for is free or held by
\* another thread that is about to release it, never by the worker itself;
\* and every accessor call of the observer returns.
C27_ObserverRunsUnlocked ==
    /\ [](wpc \in {"callback", "cb_except"} => HeldBy("worker") = {})
    /\ [](\A l \in LockNames :
            /\ wpc = ObsInside(l) =>
                  (HeldBy("worker") = {l} /\ ENABLED O_Return(l))
            /\ wpc = ObsWaiting(l) =>
                  /\ HeldBy("worker") = {}
                  /\ Holder(l) = "free" => ENABLED O_Acquire(l)
                  /\ Holder(l) # "free" =>
                        (Holder(l) = "client" /\ ENABLED ClientRelease))
    /\ [][(wpc = "store_rel" /\ wpc' # wpc) =>
            (wpc' = "callback" /\ HeldBy("worker")' = {})]_vars
    /\ \A l \in LockNames : (wpc = ObsWaiting(l)) ~> (wpc = "callback")

\* The observer waits inside get_current_frame() for the frame lock, which
\* the client holds inside its own get_current_frame().
C27_Witness ==
    /\ wpc = ObsWaiting("frame") /\ _frame_lock = "client"
    /\ cpc = "frame_rel" /\ HeldBy("worker") = {}

\* C28: from the return of disable_calculation() until enable_calculation()
\* is called again the flag is False and the worker analyses at most one
\* more frame (one whose check of the flag came before the disable); the
\* worker writes the current brightness, the maximum and the brightest
\* frame only in the analysis of a frame; its check returns the flag as it
\* is at that moment, and a frame whose check returned False goes back to
\* the loop test with the three values unchanged.
C28_DisableStopsUpdates ==
    /\ [](mark # NoMark =>
            /\ ~_calculation_enabled
            /\ Len(analysed) <= mark[1] + 1
            /\ wpc = "ba_cur" => Len(analysed) = mark[1])
    /\ [][(is_alive /\ wpc' # wpc) =>
            /\ (wpc = "enabled" => enabled_seen' = _calculation_enabled)
            /\ (wpc = "enabled_rel" /\ ~enabled_seen) => wpc' = "loop"
            /\ wpc \notin {"ba_cur", "ba_max", "ba_frame"} =>
                  UNCHANGED <<_current_brightness, _max_brightness,
                              _brightest_frame>>
            /\ wpc' = "ba_cur" => (wpc = "enabled_rel" /\ enabled_seen)
            /\ wpc = "ba_cur" => Len(analysed') = Len(analysed) + 1
            /\ wpc # "ba_cur" => analysed' = analysed]_vars

\* disable_calculation() returned when one frame had been analysed; the
\* frame in progress at that moment was analysed too, and the frame after
\* it was read and left the brightness alone.
C28_Witness ==
    /\ mark = <<1>> /\ Len(analysed) = 2
    /\ reads = 3 /\ lastRead = "frame" /\ wpc = "loop"
    /\ _current_frame.px # analysed[2]
    /\ _current_brightness = SumPx(analysed[2])

\* The steps of a toggle_starline_capture() call that ends in "Camera not
\* connected.".
ToggleRefusedPath == {"idle", "tg_online_rel", "tg_refused"}

\* C30: toggle_starline_capture() with no stream, or with
\* is_camera_online() returning False, returns after the log message and
\* changes neither the measurement flag nor the current brightness, the
\* maximum or the brightest frame, also when measurement is enabled: the
\* toggle gets to enable_calculation() or disable_calculation() only after
\* is_camera_online() returned True, so while that call returns False a
\* capture that is enabled stays enabled.
C30_OfflineToggleChangesNothing ==
    /\ [][(cpc' # cpc /\ cpc \in ToggleRefusedPath
              /\ cpc' \in ToggleRefusedPath) =>
            UNCHANGED <<_calculation_enabled, _current_brightness,
                        _max_brightness, _brightest_frame, analysed>>]_vars
    /\ [][(cpc = "idle" /\ cpc' = "tg_refused") => ~HasStream]_vars
    /\ [][(cpc = "idle" /\ cpc' = "tg_online_rel") =>
            (ret' = 1 <=> _camera_is_online)]_vars
    /\ [][(cpc = "tg_online_rel" /\ cpc' # cpc) =>
            cpc' = IF ret = 1 THEN "tg_enabled" ELSE "tg_refused"]_vars
    /\ [][(cpc = "tg_refused" /\ cpc' # cpc) => cpc' = "idle"]_vars
    /\ [][(cpc' # cpc /\ cpc' \in {"tg_enable", "tg_disable"}) =>
            cpc = "tg_enabled_rel"]_vars
    /\ [][(cpc' # cpc /\ cpc' = "tg_enabled") =>
            (cpc = "tg_online_rel" /\ ret = 1)]_vars
    /\ [][(cpc' # cpc /\ _calculation_enabled' # _calculation_enabled) =>
            cpc \in {"tg_enable", "tg_disable"}]_vars

\* Measurement was started and a brightest frame recorded; the camera went
\* offline and a press of the button has been refused, with measurement
\* still enabled.
C30_Witness ==
    /\ cpc = "tg_refused" /\ HasStream /\ is_alive
    /\ _calculation_enabled /\ ~_camera_is_online
    /\ lastRead = "no_frame"
    /\ _max_brightness > 0 /\ _brightest_frame # NoneFrame

====
